---------------------------- MODULE Spec2Model ----------------------------
(***************************************************************************)
(* Model of the document merging code of ReportGenX:                       *)
(*   DM  report_generator/core/document_merger.py  DocumentMerger          *)
(*   MD  report_generator/merge_docx.py            merge_docx_files        *)
(*   RM  backend/core/report_merger.py             ReportMerger            *)
(* and of the two save_document methods                                    *)
(*   BH  backend/core/base_handler.py      BaseTemplateHandler             *)
(*   RG  report_generator/core/report_generator.py  ReportGenerator        *)
(* A package (.docx) is a body (a sequence of blocks), a relationship part *)
(* and a media directory.  A merge is a job that runs in steps on a shared *)
(* file system: the staging directories (tmp) and the output files (fs).   *)
(* And of the editing of an open document:                                 *)
(*   DE   backend/core/document_editor.py           DocumentEditor         *)
(*   DIP  backend/core/document_image_processor.py  DocumentImageProcessor *)
(* with replace_text_in_document of BaseTemplateHandler.  A document is a  *)
(* body of paragraphs and tables, a header, a footer and a settings part;  *)
(* a text is a sequence of atoms on which the string operations of the     *)
(* code (in, replace, split, strip) are computed.                          *)
(***************************************************************************)
EXTENDS Integers, Sequences, FiniteSets, TLC

(***************************************************************************)
(* Bounds of the model.                                                    *)
(***************************************************************************)
\* longest list of input files of one job
MaxFiles == 3
\* largest number tried when an "rIdN" string is parsed
MaxIdNum == 12
\* largest numeric suffix tried by save_document
MaxCount == 3
\* most calls made on one open document
MaxCalls == 2

(***************************************************************************)
(* Strings.  Relationship Ids, targets and file names are strings; what    *)
(* the code does with them (startswith, int(), splitext, f-strings) is     *)
(* computed on them.                                                       *)
(***************************************************************************)
\* f'rId{n}'
RIdStr(n) == "rId" \o ToString(n)

\* suffixes that follow "rId" in the Ids of the model: decimal numbers and a name
IdSuffixes == {ToString(n) : n \in 0..MaxIdNum} \cup {"Img"}

\* rel_id.startswith('rId')
StartsWithRId(id) == \E s \in IdSuffixes : id = "rId" \o s

\* int(rel_id[3:]) succeeds
HasIdNum(id) == \E n \in 0..MaxIdNum : id = RIdStr(n)

\* int(rel_id[3:])
IdNum(id) == CHOOSE n \in 0..MaxIdNum : id = RIdStr(n)

\* a media file name after os.path.splitext: (file_name, file_ext)
Name(stem, ext) == [stem |-> stem, ext |-> ext]

\* the file name as one string
NameStr(nm) == nm.stem \o nm.ext

\* f'media/{media_file}'
MediaTarget(nm) == "media/" \o NameStr(nm)

(***************************************************************************)
(* Packages.                                                               *)
(***************************************************************************)
NoRef == [form |-> "none", id |-> ""]

\* <a:blip r:embed="id"/> inside a drawing
Blip(id) == [form |-> "blip", id |-> id]

\* <v:imagedata r:id="id"/>
Vml(id) == [form |-> "vml", id |-> id]

\* a paragraph or table of the body of package src, its n-th child
Para(src, n, ref) == [kind |-> "p", src |-> src, n |-> n, br |-> "none", ref |-> ref]

\* the w:sectPr child of the body of package src
SectPr(src, n) == [kind |-> "sectPr", src |-> src, n |-> n, br |-> "none", ref |-> NoRef]

\* <Relationship Id= Target= Type=/>
Rel(id, target, type) == [Id |-> id, Target |-> target, Type |-> type]

\* a file of word/media: its name and its bytes
Media(nm, blob) == [name |-> nm, blob |-> blob]

Img1 == Name("image1", ".png")
Img2 == Name("image2", ".png")
\* names as DM and MD give them to the media of a second source
Img1Doc1 == Name("image1_doc1", ".png")
Img1_2 == Name("image1_2", ".png")

\* the files on disk that a job may be given, by path
Catalogue ==
  [ path \in {"A.docx", "B.docx", "C.docx", "D.docx", "N.docx", "E.doc",
              "X.docx", "Z.docx", "K.docx", "M.docx", "P.docx"} |->
    CASE path = "A.docx" ->
           [state |-> "docx", docxExt |-> TRUE,
            body |-> << Para("A", 1, Blip("rId1")), Para("A", 2, NoRef), SectPr("A", 3) >>,
            hasRels |-> TRUE,
            rels |-> << Rel("rId1", MediaTarget(Img1), "image"), Rel("rId2", "styles.xml", "styles") >>,
            hasMedia |-> TRUE, media |-> { Media(Img1, "A/image1") }]
      [] path = "B.docx" ->
           [state |-> "docx", docxExt |-> TRUE,
            body |-> << Para("B", 1, Blip("rId1")), Para("B", 2, Vml("rId2")), SectPr("B", 3) >>,
            hasRels |-> TRUE,
            rels |-> << Rel("rId1", MediaTarget(Img1), "image"), Rel("rId2", MediaTarget(Img2), "image") >>,
            hasMedia |-> TRUE, media |-> { Media(Img1, "B/image1"), Media(Img2, "B/image2") }]
      [] path = "C.docx" ->
           \* Ids that do not start with rId; no section properties
           [state |-> "docx", docxExt |-> TRUE,
            body |-> << Para("C", 1, Blip("R1")) >>,
            hasRels |-> TRUE,
            rels |-> << Rel("R1", MediaTarget(Img1), "image") >>,
            hasMedia |-> TRUE, media |-> { Media(Img1, "C/image1") }]
      [] path = "D.docx" ->
           \* the image part lies outside word/media
           [state |-> "docx", docxExt |-> TRUE,
            body |-> << Para("D", 1, Blip("rId3")), SectPr("D", 2) >>,
            hasRels |-> TRUE,
            rels |-> << Rel("rId3", "../media/pic.png", "image") >>,
            hasMedia |-> FALSE, media |-> {}]
      [] path = "P.docx" ->
           \* the output of an earlier merge: its media have the names that a
           \* merge gave them
           [state |-> "docx", docxExt |-> TRUE,
            body |-> << Para("P", 1, Blip("rId1")), Para("P", 2, Blip("rId2")), SectPr("P", 3) >>,
            hasRels |-> TRUE,
            rels |-> << Rel("rId1", MediaTarget(Img1Doc1), "image"),
                        Rel("rId2", MediaTarget(Img1_2), "image") >>,
            hasMedia |-> TRUE,
            media |-> { Media(Img1Doc1, "P/image1_doc1"), Media(Img1_2, "P/image1_2") }]
      [] path = "N.docx" ->
           \* text only: no relationship part, no media
           [state |-> "docx", docxExt |-> TRUE,
            body |-> << Para("N", 1, NoRef), SectPr("N", 2) >>,
            hasRels |-> FALSE, rels |-> << >>,
            hasMedia |-> FALSE, media |-> {}]
      [] path = "E.doc" ->
           \* a package whose file name does not end in .docx
           [state |-> "docx", docxExt |-> FALSE,
            body |-> << Para("E", 1, NoRef), SectPr("E", 2) >>,
            hasRels |-> FALSE, rels |-> << >>,
            hasMedia |-> FALSE, media |-> {}]
      [] path = "X.docx" ->
           \* no such file
           [state |-> "missing", docxExt |-> TRUE, body |-> << >>,
            hasRels |-> FALSE, rels |-> << >>, hasMedia |-> FALSE, media |-> {}]
      [] path = "Z.docx" ->
           \* a file that is not a zip archive
           [state |-> "notzip", docxExt |-> TRUE, body |-> << >>,
            hasRels |-> FALSE, rels |-> << >>, hasMedia |-> FALSE, media |-> {}]
      [] path = "K.docx" ->
           \* a zip archive without word/document.xml
           [state |-> "nodoc", docxExt |-> TRUE, body |-> << >>,
            hasRels |-> FALSE, rels |-> << >>, hasMedia |-> FALSE, media |-> {}]
      [] path = "M.docx" ->
           \* a zip archive whose word/document.xml is not well-formed
           [state |-> "badxml", docxExt |-> TRUE, body |-> << >>,
            hasRels |-> FALSE, rels |-> << >>, hasMedia |-> FALSE, media |-> {}] ]

Paths == DOMAIN Catalogue


(***************************************************************************)
(* Files and directories.                                                  *)
(***************************************************************************)
\* an output path: directory, file name without extension, extension
OutPath(dir, base, ext) == [dir |-> dir, base |-> base, ext |-> ext]

\* the path as one string
PathStr(p) == p.dir \o "/" \o p.base \o p.ext

\* f"{base}-{count}{ext}"
Suffixed(p, count) == [p EXCEPT !.base = p.base \o "-" \o ToString(count)]

Out1 == OutPath("out1", "merged", ".docx")
Out1b == OutPath("out1", "other", ".docx")
Out2 == OutPath("out2", "merged", ".docx")

\* a job is one call: its implementation, its list of input files, its output path
Job(impl, files, out) == [impl |-> impl, files |-> files, out |-> out]

\* no job
NoJob == [impl |-> "none"]

\* every path of the output directories that the model reads or writes
FsPaths ==
  {PathStr(p) : p \in {Out1, Out1b, Out2}} \cup
  {PathStr(Suffixed(Out1, c)) : c \in 1..MaxCount}

\* no file at a path.  The fields of a file: kind ("none", "old", "docx"),
\* complete (the archive was written to its end), by (the job that wrote it)
\* and the content of the package
NoFile == [kind |-> "none"]

\* a file that was at a path before any job ran
OldFile == [kind |-> "old"]

\* an extracted package directory (base_doc, doc_<i>, temp_doc_<i>); made: the
\* directory exists; pkg: the package whose remaining parts lie in it; word:
\* the directory word/ exists; docxml: word/document.xml is absent ("none"),
\* not well-formed ("bad") or holds body ("ok")
EmptyDir == [made |-> FALSE, pkg |-> "", word |-> FALSE, docxml |-> "none", body |-> << >>,
             hasRels |-> FALSE, rels |-> << >>, hasMedia |-> FALSE, media |-> {}]

\* zipfile.ZipFile(path).extractall(dir) raises: no such file, or not a zip archive
ExtractRaises(path) == Catalogue[path].state \in {"missing", "notzip"}

\* zipfile.ZipFile(path).extractall(dir) into a directory that exists and is empty
Extracted(path) ==
  LET f == Catalogue[path]
  IN  [made |-> TRUE, pkg |-> path,
       word |-> f.state \in {"badxml", "docx"} \/ f.hasRels \/ f.hasMedia,
       docxml |-> CASE f.state = "docx" -> "ok" [] f.state = "badxml" -> "bad" [] OTHER -> "none",
       body |-> f.body, hasRels |-> f.hasRels, rels |-> f.rels,
       hasMedia |-> f.hasMedia, media |-> f.media]

\* a staging directory (temp_merge): base is base_doc, docs the indices i of the
\* per-source directories that exist in it
NoStage == [exists |-> FALSE, base |-> EmptyDir, docs |-> {}]

\* no directory at the path of a staging directory, as tmp holds it
Absent == [exists |-> FALSE]

\* the staging directory after rmtree (if it existed) and os.makedirs
FreshStage == [exists |-> TRUE, base |-> EmptyDir, docs |-> {}]

\* os.path.join(os.path.dirname(output_path), 'temp_merge')
DM_temp_dir(out) == out.dir \o "/temp_merge"

\* TEMP_DIR = os.path.join(OUTPUT_DIR, 'temp_merge'), one path for the module
TEMP_DIR == "output/temp_merge"

TempDirs == {DM_temp_dir(p) : p \in {Out1, Out1b, Out2}} \cup {TEMP_DIR}

(***************************************************************************)
(* Body and relationship helpers shared by DM and MD.                      *)
(***************************************************************************)
\* the enumerations of a finite set: what os.listdir may return for a directory
Orders(S) ==
  {o \in [1..Cardinality(S) -> S] : \A a, b \in 1..Cardinality(S) : a # b => o[a] # o[b]}

\* the index of the first child of body that is a w:sectPr, 0 when there is none
FirstSect(body) ==
  IF \E j \in 1..Len(body) : body[j].kind = "sectPr"
  THEN CHOOSE j \in 1..Len(body) :
         body[j].kind = "sectPr" /\ \A h \in 1..(j - 1) : body[h].kind # "sectPr"
  ELSE 0

\* body without its j-th child
Without(body, j) == SubSeq(body, 1, j - 1) \o SubSeq(body, j + 1, Len(body))

\* xpath('./*[not(self::w:sectPr)]')
NotSect(b) == b.kind # "sectPr"

\* the largest N among the Ids "rIdN" of a relationship part, 0 when there is none
RECURSIVE get_max_relationship_id(_)
get_max_relationship_id(rels) ==
  IF rels = << >> THEN 0
  ELSE LET rest == get_max_relationship_id(Tail(rels))
           id == Head(rels).Id
       IN  IF StartsWithRId(id) /\ HasIdNum(id) /\ IdNum(id) > rest THEN IdNum(id) ELSE rest

\* shutil.copy2 into a media directory: a file of the same name is overwritten
PutMedia(media, m) == {x \in media : x.name # m.name} \cup {m}

\* dict assignment id_mapping[old_id] = new_id
MapPut(map, old, new) == [x \in DOMAIN map \cup {old} |-> IF x = old THEN new ELSE map[x]]

EmptyMap == [x \in {} |-> ""]

(***************************************************************************)
(* DM: DocumentMerger (report_generator/core/document_merger.py).          *)
(***************************************************************************)
\* the paragraph <w:p><w:r><w:br w:type="page"/></w:r></w:p> appended by _add_page_break
DM_page_break == [kind |-> "p", src |-> "", n |-> 0, br |-> "w:type=page", ref |-> NoRef]

\* _remove_section_properties: the first w:sectPr child is removed and returned
\* (sect is the one-element sequence holding it, or empty for None)
remove_section_properties(body) ==
  LET j == FirstSect(body)
  IN  IF j = 0 THEN [body |-> body, sect |-> << >>]
      ELSE [body |-> Without(body, j), sect |-> << body[j] >>]

\* the loop of _merge_media_files over os.listdir(media_dir), from its j-th file:
\* the file is copied under its new name, and the first relationship whose
\* Target is media/<file> gets the next Id and is appended to the base part
RECURSIVE DM_media_loop(_, _, _, _, _, _, _)
DM_media_loop(order, j, srcRels, doc_index, max_id, base, id_mapping) ==
  IF j > Len(order) THEN [base |-> base, id_mapping |-> id_mapping]
  ELSE
    LET media_file == order[j]
        new_file_name == Name(media_file.name.stem \o "_doc" \o ToString(doc_index),
                              media_file.name.ext)
        copied == [base EXCEPT !.media = PutMedia(@, Media(new_file_name, media_file.blob))]
        hits == {h \in 1..Len(srcRels) : srcRels[h].Target = MediaTarget(media_file.name)}
    IN  IF hits = {}
        THEN DM_media_loop(order, j + 1, srcRels, doc_index, max_id, copied, id_mapping)
        ELSE
          LET rel == srcRels[CHOOSE h \in hits : \A g \in hits : h <= g]
              new_id == RIdStr(max_id + 1)
              new_rel == [rel EXCEPT !.Id = new_id, !.Target = MediaTarget(new_file_name)]
          IN  DM_media_loop(order, j + 1, srcRels, doc_index, max_id + 1,
                            [copied EXCEPT !.rels = Append(@, new_rel)],
                            MapPut(id_mapping, rel.Id, new_id))

\* _merge_media_files(temp_doc_dir, base_doc_dir, ...): src is the extracted
\* source, base the base_doc directory, order what os.listdir(media_dir)
\* returns.  none: the method returned None (no media directory or no
\* relationship part in the source).
merge_media_files(src, base, doc_index, order) ==
  IF ~src.hasMedia THEN [base |-> base, id_mapping |-> EmptyMap, none |-> TRUE]
  ELSE
    LET withMedia == [base EXCEPT !.made = TRUE, !.word = TRUE, !.hasMedia = TRUE]
    IN  IF ~src.hasRels THEN [base |-> withMedia, id_mapping |-> EmptyMap, none |-> TRUE]
        ELSE
          LET withRels == IF withMedia.hasRels THEN withMedia
                          ELSE [withMedia EXCEPT !.hasRels = TRUE, !.rels = << >>]
              max_id == get_max_relationship_id(withRels.rels)
              r == DM_media_loop(order, 1, src.rels, doc_index, max_id, withRels, EmptyMap)
          IN  [base |-> r.base, id_mapping |-> r.id_mapping, none |-> FALSE]

\* one reference rewritten by _update_document_media_references: r:embed of a
\* blip, r:embed of another element, r:id of a v:imagedata
DM_update_ref(ref, id_mapping) ==
  IF ref.form \in {"blip", "embed", "vml"} /\ ref.id \in DOMAIN id_mapping
  THEN [ref EXCEPT !.id = id_mapping[ref.id]]
  ELSE ref

\* _update_document_media_references(document_body, nsmap, id_mapping)
update_document_media_references(body, id_mapping) ==
  IF DOMAIN id_mapping = {} THEN body
  ELSE [j \in 1..Len(body) |-> [body[j] EXCEPT !.ref = DM_update_ref(@, id_mapping)]]

\* a copy that does not leave out the section properties of the source
copy_document_content_all(source_body, target_body) ==
  target_body \o source_body

\* _copy_document_content(source_body, target_body, nsmap)
copy_document_content(source_body, target_body) ==
  target_body \o SelectSeq(source_body, NotSect)

\* _merge_single_document(docx_file, base_doc_dir, body, nsmap, doc_index) on the
\* staging directory stage and the in-memory body; ok is the value returned
merge_single_document(stage, body, docx_file, doc_index, order) ==
  LET failed(st) == [ok |-> FALSE, stage |-> st, body |-> body, id_mapping |-> EmptyMap]
      made == [stage EXCEPT !.exists = TRUE, !.docs = @ \cup {doc_index}]
  IN  IF doc_index \in stage.docs THEN failed(stage)       \* os.makedirs: FileExistsError
      ELSE IF ExtractRaises(docx_file) THEN failed(made)   \* _extract_docx returned False
      ELSE
        LET src == Extracted(docx_file)
        IN  IF src.docxml # "ok" THEN failed(made)         \* no document.xml, or parse error
            ELSE
              LET m == merge_media_files(src, stage.base, doc_index, order)
                  updated == update_document_media_references(src.body, m.id_mapping)
              IN  [ok |-> TRUE,
                   stage |-> [stage EXCEPT !.exists = TRUE, !.base = m.base],
                   body |-> copy_document_content(updated, Append(body, DM_page_break)),
                   id_mapping |-> m.id_mapping]

\* the archive written by zipfile over os.walk(source_dir)
Archive(dir, by) ==
  [kind |-> "docx", complete |-> TRUE, by |-> by, pkg |-> dir.pkg, docxml |-> dir.docxml,
   body |-> dir.body, hasRels |-> dir.hasRels, rels |-> dir.rels,
   hasMedia |-> dir.hasMedia, media |-> dir.media]

\* what an attempt to write the output archive leaves at the output path:
\* io = "ok" the archive; "noopen" the file could not be opened for writing and
\* is as before; "partial" writing failed after the file was created
Written(before, dir, by, io) ==
  CASE io = "noopen" -> before
    [] io = "partial" -> [Archive(dir, by) EXCEPT !.complete = FALSE]
    [] OTHER -> Archive(dir, by)

\* the outcomes of saving document.xml and packing the archive
IOOutcomes == {"ok", "savefail", "noopen", "partial"}

(***************************************************************************)
(* A job and what it sees.  A job is one call: its implementation, its     *)
(* list of input files and its output path.  A view is what one call       *)
(* works on: its local variables (loc), its staging directory (stage) and  *)
(* the files of the output directories (fs).  The steps below are          *)
(* functions from a view to the view after the step.                       *)
(***************************************************************************)
\* the local variables of a call before its first step.  result is "none"
\* while the call runs, then "ok" (True), "fail" (False) or "raised" (an
\* exception left the call); ret is the path returned; skipped, idmaps,
\* orders and io record what was printed, mapped, enumerated and met.
Loc0 == [pc |-> "start", idx |-> 0, valid |-> << >>, body |-> << >>, sect |-> << >>,
         result |-> "none", ret |-> "", skipped |-> << >>, idmaps |-> << >>,
         orders |-> << >>, io |-> "none"]

\* return value from inside try ... finally: the finally clause runs next
Finally(v, value) == [v EXCEPT !.loc.pc = "cleanup", !.loc.result = value]

\* return value
Return(v, value) == [v EXCEPT !.loc.pc = "done", !.loc.result = value]

\* DocumentMerger.merge_docx_files, lines 35-75: the checks of the list, the
\* staging directory, the first file extracted as the base and parsed
DM_begin(j, v) ==
  IF Len(j.files) < 2 THEN Return(v, "fail")
  ELSE
    LET base == IF ExtractRaises(j.files[1]) THEN [EmptyDir EXCEPT !.made = TRUE]
                ELSE Extracted(j.files[1])
        staged == [v EXCEPT !.stage = [FreshStage EXCEPT !.base = base]]
    IN  IF base.docxml # "ok" THEN Finally(staged, "fail")
        ELSE LET r == remove_section_properties(base.body)
             IN  [staged EXCEPT !.loc.pc = "merge", !.loc.idx = 1,
                                !.loc.body = r.body, !.loc.sect = r.sect]

\* DocumentMerger.merge_docx_files, lines 78-83: one turn of the loop
DM_merge(j, v, order) ==
  LET docx_file == j.files[v.loc.idx + 1]
      r == merge_single_document(v.stage, v.loc.body, docx_file, v.loc.idx, order)
  IN  [v EXCEPT !.stage = r.stage,
                !.loc.body = r.body,
                !.loc.idx = @ + 1,
                !.loc.skipped = IF r.ok THEN @ ELSE Append(@, docx_file),
                !.loc.idmaps = Append(@, r.id_mapping),
                !.loc.orders = Append(@, order)]

\* DocumentMerger.merge_docx_files, lines 85-96: the section properties are
\* appended, document.xml is written, the archive is packed, True is returned
DM_finish(j, v, io) ==
  LET body == v.loc.body \o v.loc.sect
      seen == [v EXCEPT !.loc.io = io, !.loc.body = body]
  IN  IF io = "savefail" \/ ~v.stage.base.word THEN Finally(seen, "fail")
      ELSE
        LET dir == [v.stage.base EXCEPT !.docxml = "ok", !.body = body]
            out == PathStr(j.out)
        IN  Finally([seen EXCEPT !.stage.base = dir,
                                 !.fs[out] = Written(@, dir, j, io)], "ok")

\* DocumentMerger._cleanup, the finally clause of merge_docx_files
DM_cleanup(j, v) ==
  [v EXCEPT !.stage = NoStage, !.loc.pc = "done"]

(***************************************************************************)
(* MD: merge_docx_files (report_generator/merge_docx.py).                  *)
(***************************************************************************)
\* the paragraph appended before a source, lines 209-215: the attribute of w:br
\* is set as 'type', without the namespace of w:type
MD_page_break == [kind |-> "p", src |-> "", n |-> 0, br |-> "type=page", ref |-> NoRef]

\* lines 94-107: the file exists, its name ends in .docx, it opens as a zip
\* archive and word/document.xml is in its name list
MD_valid(path) ==
  /\ Catalogue[path].state # "missing"
  /\ Catalogue[path].docxExt
  /\ Catalogue[path].state # "notzip"
  /\ Catalogue[path].state \in {"docx", "badxml"}

\* lines 251-252 for one media file: every a:blip of the base document whose
\* r:embed equals the file name is given the new file name
MD_update_blips(body, media_file, new_file_name) ==
  [h \in 1..Len(body) |->
     IF body[h].ref.form = "blip" /\ body[h].ref.id = NameStr(media_file)
     THEN [body[h] EXCEPT !.ref.id = NameStr(new_file_name)]
     ELSE body[h]]

\* lines 235-255: the loop over os.listdir(media_dir), from its j-th file
RECURSIVE MD_media_loop(_, _, _, _, _)
MD_media_loop(order, j, i, media, body) ==
  IF j > Len(order) THEN [media |-> media, body |-> body]
  ELSE
    LET media_file == order[j]
        new_file_name == Name(media_file.name.stem \o "_" \o ToString(i), media_file.name.ext)
    IN  MD_media_loop(order, j + 1, i,
                      PutMedia(media, Media(new_file_name, media_file.blob)),
                      MD_update_blips(body, media_file.name, new_file_name))

\* lines 287-293: every relationship of the source is appended to the base
\* part, one whose Id starts with rId under the next Id, any other as it is
RECURSIVE MD_rels_loop(_, _, _, _, _)
MD_rels_loop(srcRels, h, max_id, rels, id_mapping) ==
  IF h > Len(srcRels) THEN [rels |-> rels, id_mapping |-> id_mapping]
  ELSE
    LET rel == srcRels[h]
    IN  IF StartsWithRId(rel.Id)
        THEN MD_rels_loop(srcRels, h + 1, max_id + 1,
                          Append(rels, [rel EXCEPT !.Id = RIdStr(max_id + 1)]),
                          MapPut(id_mapping, rel.Id, RIdStr(max_id + 1)))
        ELSE MD_rels_loop(srcRels, h + 1, max_id, Append(rels, rel), id_mapping)

\* lines 258-296: the relationship part of the source is merged into the one
\* of the base, when both exist
MD_merge_rels(src, base) ==
  IF ~src.hasRels THEN [base |-> base, id_mapping |-> EmptyMap]
  ELSE
    LET made == [base EXCEPT !.made = TRUE, !.word = TRUE]
    IN  IF ~made.hasRels THEN [base |-> made, id_mapping |-> EmptyMap]
        ELSE LET r == MD_rels_loop(src.rels, 1, get_max_relationship_id(made.rels),
                                   made.rels, EmptyMap)
             IN  [base |-> [made EXCEPT !.rels = r.rels], id_mapping |-> r.id_mapping]

\* lines 88-156: the list is filtered, the staging directory made, the first
\* valid file extracted as the base and parsed
MD_begin(j, v) ==
  LET valid_files == SelectSeq(j.files, MD_valid)
      seen == [v EXCEPT !.loc.valid = valid_files,
                        !.loc.skipped = SelectSeq(j.files, LAMBDA f : ~MD_valid(f))]
  IN  IF valid_files = << >> THEN Return(seen, "fail")
      ELSE
        LET base == Extracted(valid_files[1])
            staged == [seen EXCEPT !.stage = [FreshStage EXCEPT !.base = base]]
        IN  IF base.docxml # "ok" THEN Return(staged, "fail")
            ELSE LET r == remove_section_properties(base.body)
                 IN  [staged EXCEPT !.loc.pc = "merge", !.loc.idx = 2,
                                    !.loc.body = r.body, !.loc.sect = r.sect]

\* lines 160-299: one turn of the loop, for the i-th valid file
MD_merge(j, v, order) ==
  LET i == v.loc.idx
      docx_file == v.loc.valid[i]
      next == [v EXCEPT !.loc.idx = i + 1, !.loc.orders = Append(@, order)]
      skip == [next EXCEPT !.stage.exists = TRUE,
                           !.loc.skipped = Append(@, docx_file),
                           !.loc.idmaps = Append(@, EmptyMap)]
  IN  IF i \in v.stage.docs THEN Return(v, "raised")       \* os.makedirs: FileExistsError
      ELSE IF ExtractRaises(docx_file) THEN skip
      ELSE
        LET src == Extracted(docx_file)
        IN  IF src.docxml # "ok" THEN skip
            ELSE
              LET copied == (v.loc.body \o << MD_page_break >>) \o SelectSeq(src.body, NotSect)
                  m == IF src.hasMedia
                       THEN MD_media_loop(order, 1, i, v.stage.base.media, copied)
                       ELSE [media |-> v.stage.base.media, body |-> copied]
                  withMedia == IF src.hasMedia
                               THEN [v.stage.base EXCEPT !.made = TRUE, !.word = TRUE,
                                                         !.hasMedia = TRUE, !.media = m.media]
                               ELSE v.stage.base
                  r == MD_merge_rels(src, withMedia)
              IN  [next EXCEPT !.stage.exists = TRUE,
                               !.stage.base = r.base,
                               !.loc.body = m.body,
                               !.loc.idmaps = Append(@, r.id_mapping)]

\* lines 301-334: the section properties are appended, document.xml is written
\* and parsed again, the archive is packed by create_docx
MD_finish(j, v, io) ==
  LET body == v.loc.body \o v.loc.sect
      seen == [v EXCEPT !.loc.io = io, !.loc.body = body]
  IN  IF io = "savefail" \/ ~v.stage.base.word THEN Return(seen, "fail")
      ELSE
        LET dir == [v.stage.base EXCEPT !.docxml = "ok", !.body = body]
            out == PathStr(j.out)
            packed == [seen EXCEPT !.stage.base = dir, !.fs[out] = Written(@, dir, j, io)]
        IN  IF io = "ok" THEN [packed EXCEPT !.loc.pc = "cleanup"]
            ELSE Return(packed, "fail")

\* lines 336-340: shutil.rmtree(TEMP_DIR), which raises when the directory is
\* not there, then return True
MD_cleanup(j, v) ==
  IF ~v.stage.exists THEN Return(v, "raised")
  ELSE Return([v EXCEPT !.stage = NoStage], "ok")

(***************************************************************************)
(* RM: ReportMerger.merge_reports (backend/core/report_merger.py), and the *)
(* two save_document methods.                                              *)
(***************************************************************************)
\* a file is at the path
Exists(files, p) == PathStr(p) \in DOMAIN files /\ files[PathStr(p)].kind # "none"

\* os.path.exists(p), line 19
RM_exists(path) == Catalogue[path].state # "missing"

\* docx.Document(path) returns a document; it raises for a file that is not a
\* readable package
RM_loads(path) == Catalogue[path].state = "docx"

\* the document that python-docx or docxcompose saves.  What docxcompose makes
\* of the documents appended is the library's work and is not modelled: the
\* file records the documents it was composed of, in their order (srcs), and
\* the job that wrote it.
Saved(j, srcs) == [kind |-> "docx", complete |-> TRUE, by |-> j, srcs |-> srcs]

\* doc.save(path) on the files, for each outcome of the write
SaveTo(files, p, doc, io) ==
  CASE io = "ok" -> [files EXCEPT ![PathStr(p)] = doc]
    [] io = "partial" -> [files EXCEPT ![PathStr(p)] = [doc EXCEPT !.complete = FALSE]]
    [] OTHER -> files

\* ReportMerger.merge_reports(file_paths, output_path), with the path the
\* endpoint /api/merge-reports returns on success
RM_merge_reports(j, v, io) ==
  LET valid_paths == SelectSeq(j.files, RM_exists)
      seen == [v EXCEPT !.loc.valid = valid_paths, !.loc.io = io]
  IN  IF j.files = << >> \/ valid_paths = << >> THEN Return(seen, "fail")
      ELSE IF \E h \in 1..Len(valid_paths) : ~RM_loads(valid_paths[h]) THEN Return(seen, "fail")
      ELSE LET saved == [seen EXCEPT !.fs = SaveTo(@, j.out, Saved(j, valid_paths), io)]
           IN  IF io = "ok" THEN Return([saved EXCEPT !.loc.ret = PathStr(j.out)], "ok")
               ELSE Return(saved, "fail")

\* the while loop of save_document: the first count from count on for which
\* no file is at the suffixed path
RECURSIVE FirstFree(_, _, _)
FirstFree(files, p, count) ==
  IF Exists(files, Suffixed(p, count)) THEN FirstFree(files, p, count + 1) ELSE count

\* the path save_document writes to
SavePath(files, p) ==
  IF Exists(files, p) THEN Suffixed(p, FirstFree(files, p, 1)) ELSE p

\* BaseTemplateHandler.save_document(doc, output_path); an exception of
\* doc.save leaves the call
BH_save_document(j, v, io) ==
  LET output_path == SavePath(v.fs, j.out)
      saved == [v EXCEPT !.loc.io = io, !.fs = SaveTo(@, output_path, Saved(j, << "doc" >>), io)]
  IN  IF io = "ok" THEN Return([saved EXCEPT !.loc.ret = PathStr(output_path)], "ok")
      ELSE Return(saved, "raised")

\* f'{report_file_path_notime[:-5]}-{count}.docx', for a path that ends in an
\* extension of five characters as the one log_save builds (line 59)
RG_suffixed(p, count) == [p EXCEPT !.base = p.base \o "-" \o ToString(count), !.ext = ".docx"]

\* the while loop of ReportGenerator.save_document
RECURSIVE RG_first_free(_, _, _)
RG_first_free(files, p, count) ==
  IF Exists(files, RG_suffixed(p, count)) THEN RG_first_free(files, p, count + 1) ELSE count

\* ReportGenerator.save_document(report_file_path_notime)
RG_save_document(j, v, io) ==
  LET new_file_path == IF ~Exists(v.fs, j.out) THEN j.out
                       ELSE RG_suffixed(j.out, RG_first_free(v.fs, j.out, 1))
      saved == [v EXCEPT !.loc.io = io, !.fs = SaveTo(@, new_file_path, Saved(j, << "doc" >>), io)]
  IN  IF io = "ok" THEN Return([saved EXCEPT !.loc.ret = PathStr(new_file_path)], "ok")
      ELSE Return(saved, "raised")

\* the outcomes of one doc.save or composer.save
SaveOutcomes == {"ok", "noopen", "partial"}

(***************************************************************************)
(* The state: the jobs, their local variables, the staging directories,    *)
(* the output files, and the output files as they were before any job.     *)
(***************************************************************************)
\* job[s]: the call of session s; loc[s]: its local variables; tmp[d]: the
\* staging directory at path d; fs[p]: the file at output path p; fs0: the
\* output paths at which a file was before any job ran
VARIABLES job, loc, tmp, fs, fs0

\* doc: the document a DocumentEditor and a DocumentImageProcessor work on;
\* pre: the document before the last call; call: the last call, its arguments
\* and what it returned; cache: evidence_cell_cache of the processor (the id
\* of a cell, 0 for None); calls: the number of calls made
VARIABLES doc, pre, call, cache, calls

\* pack: a staged package directory that is packed into an archive: the files
\* of the directory (dir), what os.listdir gives (listing), the function that
\* packs (by) and the names written to the archive, in the order written (zip)
VARIABLE pack

mergeVars == << job, loc, tmp, fs, fs0 >>

docVars == << doc, pre, call, cache, calls >>

vars == << job, loc, tmp, fs, fs0, doc, pre, call, cache, calls, pack >>

\* nothing is packed
NoPack == [by |-> "none"]

\* no document is open
NoDoc == [open |-> FALSE]

\* no call was made
NoCall == [op |-> "none"]

\* no document is edited
DocIdle == doc = NoDoc /\ pre = NoDoc /\ call = NoCall /\ cache = 0 /\ calls = 0

Sessions == {1, 2}

\* the staging directory of a job
TempOf(j) == IF j.impl = "DM" THEN DM_temp_dir(j.out) ELSE TEMP_DIR

\* the staging directory at path d
StageAt(d) == IF tmp[d].exists THEN tmp[d] ELSE NoStage

\* what the call of session s works on
View(s) == [loc |-> loc[s], stage |-> StageAt(TempOf(job[s])), fs |-> fs]

\* the step of session s that leads to view w
Apply(s, w) ==
  /\ loc' = [loc EXCEPT ![s] = w.loc]
  /\ tmp' = [tmp EXCEPT ![TempOf(job[s])] = IF w.stage.exists THEN w.stage ELSE Absent]
  /\ fs' = w.fs
  /\ UNCHANGED << job, fs0 >>
  /\ UNCHANGED docVars
  /\ UNCHANGED pack

At(s, impl, pc) == job[s].impl = impl /\ loc[s].pc = pc

\* the loop of DM has a file left: enumerate(docx_files[1:], 1)
DM_more(j, l) == l.idx < Len(j.files)

\* the loop of MD has a file left: enumerate(valid_files[1:], 2)
MD_more(j, l) == l.idx <= Len(l.valid)

\* the file the next turn of the loop merges
NextFile(j, l) == IF j.impl = "DM" THEN j.files[l.idx + 1] ELSE l.valid[l.idx]

DM_Begin(s) ==
  /\ At(s, "DM", "start")
  /\ Apply(s, DM_begin(job[s], View(s)))

DM_MergeSingleDocument(s) ==
  /\ At(s, "DM", "merge")
  /\ DM_more(job[s], loc[s])
  /\ \E order \in Orders(Catalogue[NextFile(job[s], loc[s])].media) :
       Apply(s, DM_merge(job[s], View(s), order))

DM_Finish(s) ==
  /\ At(s, "DM", "merge")
  /\ ~DM_more(job[s], loc[s])
  /\ \E io \in IOOutcomes : Apply(s, DM_finish(job[s], View(s), io))

DM_Cleanup(s) ==
  /\ At(s, "DM", "cleanup")
  /\ Apply(s, DM_cleanup(job[s], View(s)))

MD_Begin(s) ==
  /\ At(s, "MD", "start")
  /\ Apply(s, MD_begin(job[s], View(s)))

MD_MergeOne(s) ==
  /\ At(s, "MD", "merge")
  /\ MD_more(job[s], loc[s])
  /\ \E order \in Orders(Catalogue[NextFile(job[s], loc[s])].media) :
       Apply(s, MD_merge(job[s], View(s), order))

MD_Finish(s) ==
  /\ At(s, "MD", "merge")
  /\ ~MD_more(job[s], loc[s])
  /\ \E io \in IOOutcomes : Apply(s, MD_finish(job[s], View(s), io))

MD_Cleanup(s) ==
  /\ At(s, "MD", "cleanup")
  /\ Apply(s, MD_cleanup(job[s], View(s)))

RM_MergeReports(s) ==
  /\ At(s, "RM", "start")
  /\ \E io \in SaveOutcomes : Apply(s, RM_merge_reports(job[s], View(s), io))

BH_SaveDocument(s) ==
  /\ At(s, "BH", "start")
  /\ \E io \in SaveOutcomes : Apply(s, BH_save_document(job[s], View(s), io))

RG_SaveDocument(s) ==
  /\ At(s, "RG", "start")
  /\ \E io \in SaveOutcomes : Apply(s, RG_save_document(job[s], View(s), io))

(***************************************************************************)
(* The specifications.  Spec: one job runs alone.  SpecConc: two merges    *)
(* run at the same time, their steps interleaved.                          *)
(***************************************************************************)
\* the lists of at most n files
RECURSIVE Lists(_)
Lists(n) ==
  IF n = 0 THEN {<< >>}
  ELSE Lists(n - 1) \cup {Append(l, p) : l \in {k \in Lists(n - 1) : Len(k) = n - 1}, p \in Paths}

\* the output files before the job: old files at the suffixes E of Out1
FsWith(E) ==
  [p \in FsPaths |->
     IF \/ 0 \in E /\ p = PathStr(Out1)
        \/ \E c \in E \ {0} : p = PathStr(Suffixed(Out1, c))
     THEN OldFile ELSE NoFile]

\* no call
Idle == [pc |-> "done"]

Init ==
  /\ \E impl \in {"DM", "MD", "RM", "BH", "RG"} :
       \E files \in IF impl \in {"BH", "RG"} THEN {<< >>} ELSE Lists(MaxFiles) :
         job = [s \in Sessions |-> IF s = 1 THEN Job(impl, files, Out1) ELSE NoJob]
  /\ loc = [s \in Sessions |-> IF s = 1 THEN Loc0 ELSE Idle]
  /\ tmp = [d \in TempDirs |-> Absent]
  /\ \E E \in SUBSET (0..(MaxCount - 1)) :
       /\ job[1].impl \in {"DM", "MD", "RM"} => E \subseteq {0}
       /\ fs = FsWith(E)
  /\ fs0 = {p \in FsPaths : fs[p].kind # "none"}
  /\ DocIdle
  /\ pack = NoPack

Next ==
  \/ \E s \in Sessions : DM_Begin(s)
  \/ \E s \in Sessions : DM_MergeSingleDocument(s)
  \/ \E s \in Sessions : DM_Finish(s)
  \/ \E s \in Sessions : DM_Cleanup(s)
  \/ \E s \in Sessions : MD_Begin(s)
  \/ \E s \in Sessions : MD_MergeOne(s)
  \/ \E s \in Sessions : MD_Finish(s)
  \/ \E s \in Sessions : MD_Cleanup(s)
  \/ \E s \in Sessions : RM_MergeReports(s)
  \/ \E s \in Sessions : BH_SaveDocument(s)
  \/ \E s \in Sessions : RG_SaveDocument(s)

Spec == Init /\ [][Next]_vars

\* the lists two concurrent merges are given
ConcLists == { << "A.docx", "B.docx" >>, << "B.docx", "N.docx" >>, << "N.docx", "A.docx" >> }

InitConc ==
  /\ \E impl \in {"DM", "MD"}, l1 \in ConcLists, l2 \in ConcLists, out2 \in {Out1b, Out2} :
       /\ l1 # l2
       /\ job = [s \in Sessions |-> IF s = 1 THEN Job(impl, l1, Out1) ELSE Job(impl, l2, out2)]
  /\ loc = [s \in Sessions |-> Loc0]
  /\ tmp = [d \in TempDirs |-> Absent]
  /\ fs = FsWith({})
  /\ fs0 = {p \in FsPaths : fs[p].kind # "none"}
  /\ DocIdle
  /\ pack = NoPack

NextConc ==
  \/ \E s \in Sessions : DM_Begin(s)
  \/ \E s \in Sessions : DM_MergeSingleDocument(s)
  \/ \E s \in Sessions : DM_Finish(s)
  \/ \E s \in Sessions : DM_Cleanup(s)
  \/ \E s \in Sessions : MD_Begin(s)
  \/ \E s \in Sessions : MD_MergeOne(s)
  \/ \E s \in Sessions : MD_Finish(s)
  \/ \E s \in Sessions : MD_Cleanup(s)

SpecConc == InitConc /\ [][NextConc]_vars

(***************************************************************************)
(* A job run alone, from its first step to its return, on a file system    *)
(* that no other job touches: the same steps as the actions take, with     *)
(* the enumerations (orders) and the outcome of the write (io) given.      *)
(***************************************************************************)
\* the order the next turn of the loop enumerates the media in: the next of
\* orders, or some order when orders has no more
OrderAt(j, l, orders) ==
  LET h == Len(l.orders) + 1
  IN  IF h <= Len(orders) THEN orders[h]
      ELSE CHOOSE o \in Orders(Catalogue[NextFile(j, l)].media) : TRUE

\* the next step of job j on view v
StepOf(j, v, orders, io) ==
  CASE j.impl = "DM" /\ v.loc.pc = "start" -> DM_begin(j, v)
    [] j.impl = "DM" /\ v.loc.pc = "merge" /\ DM_more(j, v.loc) ->
         DM_merge(j, v, OrderAt(j, v.loc, orders))
    [] j.impl = "DM" /\ v.loc.pc = "merge" /\ ~DM_more(j, v.loc) -> DM_finish(j, v, io)
    [] j.impl = "DM" /\ v.loc.pc = "cleanup" -> DM_cleanup(j, v)
    [] j.impl = "MD" /\ v.loc.pc = "start" -> MD_begin(j, v)
    [] j.impl = "MD" /\ v.loc.pc = "merge" /\ MD_more(j, v.loc) ->
         MD_merge(j, v, OrderAt(j, v.loc, orders))
    [] j.impl = "MD" /\ v.loc.pc = "merge" /\ ~MD_more(j, v.loc) -> MD_finish(j, v, io)
    [] j.impl = "MD" /\ v.loc.pc = "cleanup" -> MD_cleanup(j, v)
    [] j.impl = "RM" -> RM_merge_reports(j, v, IF io = "savefail" THEN "noopen" ELSE io)
    [] j.impl = "BH" -> BH_save_document(j, v, IF io = "savefail" THEN "noopen" ELSE io)
    [] j.impl = "RG" -> RG_save_document(j, v, IF io = "savefail" THEN "noopen" ELSE io)

RECURSIVE Run(_, _, _, _)
Run(j, v, orders, io) ==
  IF v.loc.pc = "done" THEN v ELSE Run(j, StepOf(j, v, orders, io), orders, io)

\* job j run alone, with old files at the paths before
Alone(j, orders, io, before) ==
  Run(j, [loc |-> Loc0, stage |-> NoStage,
          fs |-> [p \in FsPaths |-> IF p \in before THEN OldFile ELSE NoFile]], orders, io)

(***************************************************************************)
(* What the claims speak of.                                               *)
(***************************************************************************)
Merger(s) == job[s].impl \in {"DM", "MD"}

Done(s) == loc[s].pc = "done"

\* the file at the output path of session s
OutFile(s) == fs[PathStr(job[s].out)]

\* session s returned success and its archive is at its output path
Merged(s) ==
  /\ Merger(s) /\ Done(s) /\ loc[s].result = "ok"
  /\ OutFile(s).kind = "docx" /\ OutFile(s).complete /\ OutFile(s).by = job[s]

\* the package that became the accumulator of session s
BaseOf(s) == IF job[s].impl = "DM" THEN job[s].files[1] ELSE loc[s].valid[1]

\* the values of an id mapping
Range(f) == {f[x] : x \in DOMAIN f}

\* the Ids of a relationship part are pairwise different
DistinctIds(rels) == \A a, b \in 1..Len(rels) : a # b => rels[a].Id # rels[b].Id

\* C1: while sources are merged and in the merged output, no two entries of the
\* accumulator's relationship part have the same Id, and every Id allocated for
\* a source is an rIdN whose N is greater than the N of every rIdN of the base
\* and of every Id allocated for an earlier source.
C1_UniqueRelationshipIds ==
  \A s \in Sessions :
    Merger(s) =>
      /\ loc[s].pc = "merge" =>
           /\ DistinctIds(StageAt(TempOf(job[s])).base.rels)
           /\ \A k \in 1..Len(loc[s].idmaps) : \A new \in Range(loc[s].idmaps[k]) :
                /\ HasIdNum(new)
                /\ IdNum(new) > get_max_relationship_id(Catalogue[BaseOf(s)].rels)
                /\ \A h \in 1..(k - 1) : \A before \in Range(loc[s].idmaps[h]) :
                     IdNum(new) > IdNum(before)
      /\ Merged(s) => DistinctIds(OutFile(s).rels)

\* the embed reference ref resolves in a package: its Id is the Id of a
\* relationship whose target is a file of the media directory
Resolves(ref, rels, media) ==
  \E h \in 1..Len(rels) :
    /\ rels[h].Id = ref.id
    /\ \E m \in media : rels[h].Target = MediaTarget(m.name)

\* every embed reference of the body resolves in the package
AllResolve(body, rels, media) ==
  \A h \in 1..Len(body) : body[h].ref.form # "none" => Resolves(body[h].ref, rels, media)

\* C2: in the merged output of an accumulator whose own references resolve,
\* every embed reference of the body (r:embed, r:id of v:imagedata) names a
\* relationship of the output's relationship part whose target is a file of the
\* output's media directory, whatever the other sources are.
C2_EmbedReferencesResolve ==
  \A s \in Sessions :
    ( /\ Merged(s)
      /\ AllResolve(Catalogue[BaseOf(s)].body, Catalogue[BaseOf(s)].rels,
                    Catalogue[BaseOf(s)].media) )
    => AllResolve(OutFile(s).body, OutFile(s).rels, OutFile(s).media)

\* a package DM merges: a zip archive with a well-formed word/document.xml
DM_valid(path) == Catalogue[path].state = "docx"

\* a block without its embed reference, which a merge may rewrite
Strip(b) == [b EXCEPT !.ref = NoRef]

\* a paragraph that holds a page break: <w:br w:type="page"/>
IsPageBreak(b) == b.kind = "p" /\ b.br = "w:type=page"

\* the children of a body that are not section properties
Blocks(path) == SelectSeq(Catalogue[path].body, NotSect)

\* the section properties of the first file: a sequence of one node or none
SectOf(path) ==
  LET body == Catalogue[path].body
  IN  IF FirstSect(body) = 0 THEN << >> ELSE << body[FirstSect(body)] >>

\* the blocks of the first file, then for every later file a page break and
\* its blocks
RECURSIVE Concatenated(_)
Concatenated(files) ==
  IF Len(files) = 1 THEN Blocks(files[1])
  ELSE (Concatenated(SubSeq(files, 1, Len(files) - 1)) \o << DM_page_break >>)
         \o Blocks(files[Len(files)])

\* DocumentMerger merged the valid sources of session s
MergedValid(s) ==
  /\ job[s].impl = "DM" /\ Merged(s)
  /\ \A h \in 1..Len(job[s].files) : DM_valid(job[s].files[h])

\* the body is the blocks of the sources in their order, a page-break
\* paragraph before every source but the first
InSourceOrder(body, files) ==
  LET expected == Concatenated(files)
  IN  /\ Len(SelectSeq(body, NotSect)) = Len(expected)
      /\ \A h \in 1..Len(expected) :
           /\ Strip(body[h]) = Strip(expected[h])
           /\ expected[h] = DM_page_break => IsPageBreak(body[h])

\* C3 as stated: merging valid sources [A, B, C] yields A's blocks, a page
\* break, B's blocks, a page break, C's blocks and then A's section properties;
\* exactly one section-properties node is a child of the body, and it is the
\* last child.
C3_ExactlyOneSectPr ==
  \A s \in Sessions :
    MergedValid(s) =>
      LET body == OutFile(s).body
      IN  /\ InSourceOrder(body, job[s].files)
          /\ Len(body) = Len(Concatenated(job[s].files)) + 1
          /\ body[Len(body)].kind = "sectPr"
          /\ << body[Len(body)] >> = SectOf(job[s].files[1])

\* C3, amended: merging valid sources yields the first source's blocks, then
\* for every later source one page-break paragraph and that source's blocks in
\* their order; the first source's section-properties node, when it has one, is
\* the last child and the only section-properties child, and when it has none
\* the body has no section-properties child.
C3_BodyOrder ==
  \A s \in Sessions :
    MergedValid(s) =>
      LET body == OutFile(s).body
      IN  /\ InSourceOrder(body, job[s].files)
          /\ body = SelectSeq(body, NotSect) \o SectOf(job[s].files[1])

\* three different valid sources were merged, the first with section properties
C3_Witness ==
  \E s \in Sessions :
    /\ MergedValid(s)
    /\ Len(job[s].files) = 3
    /\ Cardinality({job[s].files[h] : h \in 1..3}) = 3
    /\ SectOf(job[s].files[1]) # << >>
    /\ \A h \in 1..3 : Blocks(job[s].files[h]) # << >>
    /\ \E h \in 2..3 : SectOf(job[s].files[h]) # << >>

(***************************************************************************)
(* Valid and invalid inputs, as the claims define them.                    *)
(***************************************************************************)
\* the file exists, is a zip archive and contains a word/document.xml that parses
ClaimValid(path) == Catalogue[path].state = "docx"

\* the file is missing, is not a zip archive, or lacks word/document.xml
ClaimInvalid(path) == Catalogue[path].state \in {"missing", "notzip", "nodoc"}

\* what two outputs must share to be equivalent: the body, the relationship
\* Ids and the media file names (for RM: the documents composed)
Content(f) ==
  IF "body" \in DOMAIN f
  THEN [body |-> f.body,
        ids |-> {f.rels[h].Id : h \in 1..Len(f.rels)},
        media |-> {m.name : m \in f.media}]
  ELSE [srcs |-> f.srcs]

\* the output of job j run alone with enumerations orders and a write that succeeds
AloneOutput(j, orders) == Alone(j, orders, "ok", fs0).fs[PathStr(j.out)]

\* the sequence s has the element x
Has(s, x) == \E h \in 1..Len(s) : s[h] = x

\* C4: merging [A, invalid, C], with A and C valid and the second input
\* missing, not a zip archive or without word/document.xml, returns success
\* when the write succeeds, reports the second input as skipped, and writes an
\* output with the body, the relationship Ids and the media file names of the
\* output of merging [A, C].
C4_SkipEqualsMergeWithout ==
  \A s \in Sessions :
    ( /\ job[s].impl \in {"DM", "RM"} /\ Done(s)
      /\ Len(job[s].files) = 3
      /\ ClaimValid(job[s].files[1]) /\ ClaimInvalid(job[s].files[2])
      /\ ClaimValid(job[s].files[3])
      /\ loc[s].io \in {"ok", "none"} )
    => /\ loc[s].result = "ok"
       /\ Has(loc[s].skipped, job[s].files[2])
       /\ OutFile(s).kind = "docx"
       /\ \E o \in Orders(Catalogue[job[s].files[3]].media) :
            LET without == [job[s] EXCEPT !.files = << job[s].files[1], job[s].files[3] >>]
                ref == AloneOutput(without, << o >>)
            IN  ref.kind = "docx" /\ Content(OutFile(s)) = Content(ref)

\* the first valid input of a list that has one
FirstValid(files) ==
  files[CHOOSE h \in 1..Len(files) :
          ClaimValid(files[h]) /\ \A g \in 1..(h - 1) : ~ClaimValid(files[g])]

\* the package an output was built on
BuiltOn(f) == IF "pkg" \in DOMAIN f THEN f.pkg ELSE f.srcs[1]

\* C5: a merge of inputs each of which is valid or invalid fails before it
\* writes anything exactly when no input is valid; when an input is valid and
\* the write succeeds, the merge returns success and its output is built on the
\* first valid input.
C5_FailsOnlyWithoutValidInput ==
  \A s \in Sessions :
    ( /\ Merger(s) /\ Done(s)
      /\ \A h \in 1..Len(job[s].files) :
           ClaimValid(job[s].files[h]) \/ ClaimInvalid(job[s].files[h]) )
    => LET anyValid == \E h \in 1..Len(job[s].files) : ClaimValid(job[s].files[h])
       IN  /\ (loc[s].result = "fail" /\ loc[s].io = "none") <=> ~anyValid
           /\ (anyValid /\ loc[s].io = "ok") =>
                /\ loc[s].result = "ok"
                /\ OutFile(s).kind = "docx"
                /\ BuiltOn(OutFile(s)) = FirstValid(job[s].files)

(***************************************************************************)
(* The output file, the staging directory, concurrent merges, the order of *)
(* enumeration, and saving beside an existing file.                        *)
(***************************************************************************)
\* the file at path p before any job ran
Before(p) == IF p \in fs0 THEN OldFile ELSE NoFile

\* session s has reached the step that writes its output
AllProcessed(s) == loc[s].pc \in {"cleanup", "done"} /\ loc[s].io # "none"

\* C6: a merge that returns success has written a complete archive at its
\* output path; a merge that returns failure leaves at the output path what was
\* there before the call, no new and no partly written file; and the output
\* path changes only once every source has been processed and the merged body
\* stored.
C6_CompleteOutputOrNothing ==
  \A s \in Sessions :
    Merger(s) =>
      /\ (Done(s) /\ loc[s].result = "ok") =>
           OutFile(s).kind = "docx" /\ OutFile(s).complete /\ OutFile(s).by = job[s]
      /\ (Done(s) /\ loc[s].result # "ok") => OutFile(s) = Before(PathStr(job[s].out))
      /\ OutFile(s) # Before(PathStr(job[s].out)) => AllProcessed(s)

\* C7: when a merge has returned, with success or with failure at any step,
\* its temporary staging directory does not exist.
C7_StagingDirectoryRemoved ==
  \A s \in Sessions :
    (Merger(s) /\ Done(s)) => ~tmp[TempOf(job[s])].exists

\* the outcomes of the write that session s may have met
OutcomesOf(s) == IF loc[s].io = "none" THEN IOOutcomes ELSE {loc[s].io}

\* C8: of two merges that run at the same time on different lists and
\* different output files, each returns what it returns when run alone and
\* leaves the output it leaves when run alone, with the same enumerations and
\* the same outcome of the write, also when both outputs are in one directory.
C8_ConcurrentMergesIndependent ==
  \A s \in Sessions :
    (Merger(s) /\ Done(s)) =>
      \E io \in OutcomesOf(s) :
        LET alone == Alone(job[s], loc[s].orders, io, fs0)
        IN  /\ loc[s].result = alone.loc.result
            /\ OutFile(s) = alone.fs[PathStr(job[s].out)]

\* the sequences of enumerations that list the same media as those session s met
OtherOrders(s) ==
  LET met == loc[s].orders
      all == UNION {Orders(Range(met[h])) : h \in 1..Len(met)}
  IN  {o \in [1..Len(met) -> all] : \A h \in 1..Len(met) : Range(o[h]) = Range(met[h])}

\* C9: a merge of the same list in the same order maps every old relationship
\* Id of every source to the same new Id, in whatever order the file system
\* enumerates the media files of a source.
C9_IdsIndependentOfEnumeration ==
  \A s \in Sessions :
    (Merger(s) /\ Done(s) /\ loc[s].result = "ok") =>
      \A o \in OtherOrders(s) :
        Alone(job[s], o, loc[s].io, fs0).loc.idmaps = loc[s].idmaps

\* the first count from 1 on at which no file was before any job ran
FirstFreeBefore(p) ==
  CHOOSE c \in 1..MaxCount :
    /\ PathStr(Suffixed(p, c)) \notin fs0
    /\ \A d \in 1..(c - 1) : PathStr(Suffixed(p, d)) \in fs0

\* C10: a save to an output path at which a file exists leaves every existing
\* file as it was, writes the document to the path with the first free suffix
\* -1, -2, ... before the extension, a path at which no file was before the
\* call, and returns that path.
C10_SaveNeverOverwrites ==
  \A s \in Sessions :
    ( /\ job[s].impl \in {"BH", "RG", "RM"} /\ Done(s)
      /\ PathStr(job[s].out) \in fs0 )
    => /\ \A p \in fs0 : fs[p] = OldFile
       /\ loc[s].result = "ok" =>
            /\ loc[s].ret = PathStr(Suffixed(job[s].out, FirstFreeBefore(job[s].out)))
            /\ loc[s].ret \notin fs0
            /\ fs[loc[s].ret] = Saved(job[s], fs[loc[s].ret].srcs)

(***************************************************************************)
(* Texts.  A text is a sequence of atoms: "#", the newline, the blank, and *)
(* words.  A word stands for a string without '#' and without white space, *)
(* and no word of the model is made of other words, so that a key "#w#"    *)
(* occurs in a text as a string exactly when its three atoms occur in a    *)
(* row.  The operations are those of Python's str.                         *)
(***************************************************************************)
\* "#w#"
Token(w) == << "#", w, "#" >>

\* risk_level_key = "#overall_risk_level#"
risk_level_key == Token("overall_risk_level")

\* RISK_LEVEL_COLORS: the level labels and their colours.  The labels of the
\* source are Chinese words; each is written here by its meaning in English.
RISK_LEVEL_COLORS ==
  [v \in { << "NoRisk" >>, << "Informational" >>, << "LowSeverity" >>, << "MediumSeverity" >>,
           << "HighSeverity" >>, << "Critical" >>, << "Severe" >>, << "LowRisk" >>,
           << "MediumRisk" >>, << "HighRisk" >> } |->
     CASE v = << "NoRisk" >> -> "198754"
       [] v = << "Informational" >> -> "17a2b8"
       [] v \in { << "LowSeverity" >>, << "LowRisk" >> } -> "28a745"
       [] v \in { << "MediumSeverity" >>, << "MediumRisk" >> } -> "fd7e14"
       [] v \in { << "HighSeverity" >>, << "HighRisk" >> } -> "dc3545"
       [] OTHER -> "8b0000"]

\* text[i:i+len(key)] == key
MatchAt(text, key, i) ==
  /\ i + Len(key) - 1 <= Len(text)
  /\ \A h \in 1..Len(key) : text[i + h - 1] = key[h]

\* key in text
In(key, text) == \E i \in 1..(Len(text) + 1) : MatchAt(text, key, i)

\* text.find(key) + 1 for a key that is in text
Find(text, key) ==
  CHOOSE i \in 1..(Len(text) + 1) :
    MatchAt(text, key, i) /\ \A h \in 1..(i - 1) : ~MatchAt(text, key, h)

\* text.replace(key, value), for a key that is not empty
RECURSIVE Replace(_, _, _)
Replace(text, key, value) ==
  IF text = << >> THEN << >>
  ELSE IF MatchAt(text, key, 1)
       THEN value \o Replace(SubSeq(text, Len(key) + 1, Len(text)), key, value)
       ELSE << text[1] >> \o Replace(Tail(text), key, value)

\* text.split(sep), for a sep that is not empty
RECURSIVE Split(_, _)
Split(text, sep) ==
  IF ~In(sep, text) THEN << text >>
  ELSE LET i == Find(text, sep)
       IN  << SubSeq(text, 1, i - 1) >> \o Split(SubSeq(text, i + Len(sep), Len(text)), sep)

\* text.strip() == "": the text has white space only
IsBlank(text) == \A h \in 1..Len(text) : text[h] \in {" ", "\n"}

\* "".join(texts)
RECURSIVE Concat(_)
Concat(texts) == IF texts = << >> THEN << >> ELSE texts[1] \o Concat(Tail(texts))

\* sep.join(texts)
RECURSIVE Join(_, _)
Join(texts, sep) ==
  IF texts = << >> THEN << >>
  ELSE IF Len(texts) = 1 THEN texts[1]
  ELSE (texts[1] \o sep) \o Join(Tail(texts), sep)

(***************************************************************************)
(* The document, as python-docx presents it.  A run has a text, a colour,  *)
(* a bold flag, a picture or the part of a field it holds.  A paragraph    *)
(* has its properties (pPr) and its runs.  A cell has an id (its           *)
(* identity as an object), a width or none, and paragraphs.  A block of    *)
(* the body is a paragraph or a table.                                     *)
(***************************************************************************)
\* no picture; the width of a picture is in EMU
NoPic == [path |-> "", width |-> 0]

\* a run of text; its text is "" when it has no w:t
TextRun(text) == [text |-> text, color |-> "none", bold |-> FALSE, pic |-> NoPic, fld |-> "none"]

\* a w:p with properties pPr and the runs given
Paragraph(pPr, runs) == [kind |-> "p", pPr |-> pPr, runs |-> runs]

\* a paragraph of one run
P(text) == Paragraph("body", << TextRun(text) >>)

\* Paragraph.text: the texts of the runs in a row
ParaText(p) == Concat([h \in 1..Len(p.runs) |-> p.runs[h].text])

\* Paragraph.text = text: the runs are removed, the properties kept, and one
\* run holds the text
SetText(p, text) == [p EXCEPT !.runs = << TextRun(text) >>]

\* Paragraph.add_run(text)
AddRun(p, run) == [p EXCEPT !.runs = Append(@, run)]

\* the width of a cell that has none (_Cell.width is None)
NoWidth == 0

\* the width of the cells of the model that have one, in EMU: three inches;
\* CellWidth / 914400 is the double 3.0 and Inches(3.0) gives the EMU back
CellWidth == 2743200

\* a w:tc
Cell(id, width, paras) == [id |-> id, width |-> width, paras |-> paras]

\* a w:tbl with its cells row by row
Table(cells) == [kind |-> "tbl", cells |-> cells]

\* _Cell.text: the texts of the paragraphs joined by newlines
CellText(c) == Join([h \in 1..Len(c.paras) |-> ParaText(c.paras[h])], << "\n" >>)

\* _Cell.text = text: the content is removed and one new paragraph of one run
\* holds the text
SetCellText(c, text) == [c EXCEPT !.paras = << Paragraph("none", << TextRun(text) >>) >>]

\* _Cell.add_paragraph()
AddParagraph(c, p) == [c EXCEPT !.paras = Append(@, p)]

\* a header or a footer: its paragraphs and its tables
Region(paras, tables) == [paras |-> paras, tables |-> tables]

\* a document: the body, the header and the footer of its section, and the
\* w:updateFields elements of its settings part (the value of each)
Document(body, header, footer, updateFields) ==
  [open |-> TRUE, body |-> body, header |-> header, footer |-> footer,
   updateFields |-> updateFields]

\* the positions of the blocks doc.paragraphs lists: the w:p children of the body
ParagraphsOf(body) == {h \in 1..Len(body) : body[h].kind = "p"}

\* the positions of the blocks doc.tables lists
TablesOf(body) == {h \in 1..Len(body) : body[h].kind = "tbl"}

\* list.insert(i, x) for 0 <= i <= len, with i counted from 0
InsertAt(seq, i, x) == (SubSeq(seq, 1, i) \o << x >>) \o SubSeq(seq, i + 1, Len(seq))

\* the sequence without its h-th element
RemoveAt(seq, h) == SubSeq(seq, 1, h - 1) \o SubSeq(seq, h + 1, Len(seq))

(***************************************************************************)
(* DocumentEditor.                                                         *)
(***************************************************************************)
\* run.text = "": the content of the run is removed, its properties kept
ClearRun(r) == [r EXCEPT !.text = << >>, !.pic = NoPic, !.fld = "none"]

\* the run _replace_with_color adds for the value: coloured and bold
ColoredRun(value, color) == [TextRun(value) EXCEPT !.color = color, !.bold = TRUE]

\* the loop of _replace_with_color over enumerate(parts), from part i on
RECURSIVE ColorRuns(_, _, _, _)
ColorRuns(parts, i, value, color) ==
  IF i > Len(parts) THEN << >>
  ELSE ((IF parts[i] # << >> THEN << TextRun(parts[i]) >> ELSE << >>)
          \o (IF i < Len(parts) THEN << ColoredRun(value, color) >> ELSE << >>))
         \o ColorRuns(parts, i + 1, value, color)

\* _replace_with_color(paragraph, placeholder, value, color): the paragraph after
replace_with_color(paragraph, placeholder, value, color) ==
  IF ~In(placeholder, ParaText(paragraph)) THEN paragraph
  ELSE LET full_text == ParaText(paragraph)
           cleared == [h \in 1..Len(paragraph.runs) |-> ClearRun(paragraph.runs[h])]
           parts == Split(full_text, placeholder)
       IN  [paragraph EXCEPT !.runs = cleared \o ColorRuns(parts, 1, value, color)]

\* _insert_paragraphs_after(paragraph, lines): the paragraph takes the first
\* line, and for every other line a copy of it without its runs takes the line
\* and is inserted after; the paragraphs that stand in its place
insert_paragraphs_after(paragraph, lines) ==
  [i \in 1..Len(lines) |-> SetText(paragraph, lines[i])]

\* replacements.get(key, "") on a map given as the sequence of its items
Get(replacements, key) ==
  IF \E h \in 1..Len(replacements) : replacements[h].key = key
  THEN replacements[CHOOSE h \in 1..Len(replacements) : replacements[h].key = key].value
  ELSE << >>

\* for key, value in replacements.items(): if key in full_text:
\*     full_text = full_text.replace(key, str(value)); is_modified = True
\* from the h-th item on
RECURSIVE ReplaceItems(_, _, _, _)
ReplaceItems(full_text, is_modified, replacements, h) ==
  IF h > Len(replacements) THEN [full_text |-> full_text, is_modified |-> is_modified]
  ELSE IF In(replacements[h].key, full_text)
       THEN ReplaceItems(Replace(full_text, replacements[h].key, replacements[h].value),
                         TRUE, replacements, h + 1)
       ELSE ReplaceItems(full_text, is_modified, replacements, h + 1)

\* a plain branch that writes the text back whether or not an item applied
DE_replace_plain_always(paragraph, replacements) ==
  SetText(paragraph, ReplaceItems(ParaText(paragraph), FALSE, replacements, 1).full_text)

\* the plain branch (lines 149-156, 165-172, 181-188, 211-218): the paragraph
\* takes the replaced text if an item applied
DE_replace_plain(paragraph, replacements) ==
  LET r == ReplaceItems(ParaText(paragraph), FALSE, replacements, 1)
  IN  IF r.is_modified THEN SetText(paragraph, r.full_text) ELSE paragraph

\* the colour branch is taken (lines 118, 201)
DE_colour_case(full_text, replacements, enable_risk_color) ==
  /\ enable_risk_color
  /\ In(risk_level_key, full_text)
  /\ Get(replacements, risk_level_key) \in DOMAIN RISK_LEVEL_COLORS

\* the colour branch (lines 119-129, 202-209): the paragraph is rebuilt by
\* _replace_with_color; the text the other items are replaced in is a local
\* variable that is not written back
DE_replace_colour(paragraph, replacements) ==
  LET risk_level_value == Get(replacements, risk_level_key)
  IN  replace_with_color(paragraph, risk_level_key, risk_level_value,
                         RISK_LEVEL_COLORS[risk_level_value])

\* the body of the loop over doc.paragraphs (lines 111-156): the paragraphs
\* that stand in the place of the paragraph after it
DE_body_paragraph(paragraph, replacements, enable_risk_color) ==
  LET full_text == ParaText(paragraph)
      needs_multiline ==
        \E h \in 1..Len(replacements) :
          In(replacements[h].key, full_text) /\ In(<< "\n" >>, replacements[h].value)
      replaced == ReplaceItems(full_text, FALSE, replacements, 1).full_text
      notBlank(line) == ~IsBlank(line)
      lines == SelectSeq(Split(replaced, << "\n" >>), notBlank)
  IN  IF ~In(<< "#" >>, full_text) THEN << paragraph >>
      ELSE IF DE_colour_case(full_text, replacements, enable_risk_color)
           THEN << DE_replace_colour(paragraph, replacements) >>
      ELSE IF needs_multiline
           THEN IF Len(lines) > 1 THEN insert_paragraphs_after(paragraph, lines)
                ELSE << SetText(paragraph, replaced) >>
      ELSE << DE_replace_plain(paragraph, replacements) >>

\* a cell of a header table (lines 177-188)
DE_header_cell(cell, replacements) ==
  IF CellText(cell) = << >> \/ ~In(<< "#" >>, CellText(cell)) THEN cell
  ELSE [cell EXCEPT !.paras = [h \in 1..Len(cell.paras) |->
                                 DE_replace_plain(cell.paras[h], replacements)]]

\* a cell of a body table (lines 193-218)
DE_table_cell(cell, replacements, enable_risk_color) ==
  IF CellText(cell) = << >> \/ ~In(<< "#" >>, CellText(cell)) THEN cell
  ELSE [cell EXCEPT !.paras = [h \in 1..Len(cell.paras) |->
          IF DE_colour_case(ParaText(cell.paras[h]), replacements, enable_risk_color)
          THEN DE_replace_colour(cell.paras[h], replacements)
          ELSE DE_replace_plain(cell.paras[h], replacements)]]

\* the blocks in a row
RECURSIVE FlattenFrom(_, _)
FlattenFrom(seqs, h) == IF h > Len(seqs) THEN << >> ELSE seqs[h] \o FlattenFrom(seqs, h + 1)

Flatten(seqs) == FlattenFrom(seqs, 1)

\* a header paragraph (lines 162-172)
DE_header_paragraph(paragraph, replacements) ==
  IF ~In(<< "#" >>, ParaText(paragraph)) THEN paragraph
  ELSE DE_replace_plain(paragraph, replacements)

\* replace_report_text(replacements, enable_risk_color): the document after.
\* The paragraphs of the body, then the header and its tables, then the tables
\* of the body; the footer is not visited.
replace_report_text(d, replacements, enable_risk_color) ==
  LET body1 == Flatten([h \in 1..Len(d.body) |->
                 IF d.body[h].kind = "p"
                 THEN DE_body_paragraph(d.body[h], replacements, enable_risk_color)
                 ELSE << d.body[h] >>])
      header == Region([h \in 1..Len(d.header.paras) |->
                          DE_header_paragraph(d.header.paras[h], replacements)],
                       [t \in 1..Len(d.header.tables) |->
                          Table([c \in 1..Len(d.header.tables[t].cells) |->
                                   DE_header_cell(d.header.tables[t].cells[c], replacements)])])
      body2 == [h \in 1..Len(body1) |->
                 IF body1[h].kind = "tbl"
                 THEN Table([c \in 1..Len(body1[h].cells) |->
                               DE_table_cell(body1[h].cells[c], replacements, enable_risk_color)])
                 ELSE body1[h]]
  IN  [d EXCEPT !.body = body2, !.header = header]

\* BaseTemplateHandler._replace_in_paragraph(paragraph, replacements): when the
\* text changed and the paragraph has runs, the first run takes the text and
\* the other runs are emptied
BH_replace_in_paragraph(paragraph, replacements) ==
  LET full_text == ReplaceItems(ParaText(paragraph), FALSE, replacements, 1).full_text
  IN  IF full_text # ParaText(paragraph) /\ paragraph.runs # << >>
      THEN [paragraph EXCEPT !.runs = [h \in 1..Len(paragraph.runs) |->
              IF h = 1 THEN [ClearRun(paragraph.runs[h]) EXCEPT !.text = full_text]
              ELSE ClearRun(paragraph.runs[h])]]
      ELSE paragraph

\* BaseTemplateHandler.replace_text_in_document(doc, replacements): the
\* paragraphs of the body and of the cells of its tables
BH_replace_text_in_document(d, replacements) ==
  [d EXCEPT !.body = [h \in 1..Len(d.body) |->
     IF d.body[h].kind = "p" THEN BH_replace_in_paragraph(d.body[h], replacements)
     ELSE Table([c \in 1..Len(d.body[h].cells) |->
            [d.body[h].cells[c] EXCEPT !.paras = [k \in 1..Len(d.body[h].cells[c].paras) |->
               BH_replace_in_paragraph(d.body[h].cells[c].paras[k], replacements)]]])]]

\* _create_toc_title_paragraph(title): centred, one bold run of size 32
create_toc_title_paragraph(title) ==
  Paragraph("center", << [TextRun(title) EXCEPT !.bold = TRUE] >>)

\* a run that holds a part of a field and no text
FieldRun(part) == [TextRun(<< >>) EXCEPT !.fld = part]

\* _create_toc_field_paragraph(): field begin, instruction, separator, the
\* grey text that asks for an update, field end
create_toc_field_paragraph ==
  Paragraph("empty",
            << FieldRun("begin"), FieldRun("instrText TOC"), FieldRun("separate"),
               [TextRun(<< "UpdateTheTableOfContents" >>) EXCEPT !.color = "808080"],
               FieldRun("end") >>)

\* a version that appends a w:updateFields element whether or not there is one
set_update_fields_on_open_append(updateFields) == Append(updateFields, "true")

\* _set_update_fields_on_open(): the first w:updateFields element, appended
\* when there is none, is set to true
set_update_fields_on_open(updateFields) ==
  IF updateFields = << >> THEN << "true" >> ELSE [updateFields EXCEPT ![1] = "true"]

\* insert_toc_at_placeholder(placeholder, toc_title): the value returned and
\* the document after
insert_toc_at_placeholder(d, placeholder, toc_title) ==
  LET found == {h \in ParagraphsOf(d.body) : In(placeholder, ParaText(d.body[h]))}
  IN  IF found = {} THEN [ret |-> FALSE, doc |-> d]
      ELSE LET target == CHOOSE h \in found : \A g \in found : h <= g
               para_index == target - 1
               with_title == InsertAt(d.body, para_index, create_toc_title_paragraph(toc_title))
               with_toc == InsertAt(with_title, para_index + 1, create_toc_field_paragraph)
               removed == RemoveAt(with_toc, target + 2)
           IN  [ret |-> TRUE,
                doc |-> [d EXCEPT !.body = removed,
                                  !.updateFields = set_update_fields_on_open(@)]]

(***************************************************************************)
(* DocumentImageProcessor.  An image file is known by what the calls on    *)
(* its path give: os.path.isabs, os.path.exists of the path as given and   *)
(* of the path under base_dir, Image.open (decode: the width in pixels it   *)
(* reads, 0 when it raises) and run.add_picture.                           *)
(***************************************************************************)
ImageFile(isabs, asGiven, atBase, decode, insert, basename) ==
  [isabs |-> isabs, asGiven |-> asGiven, atBase |-> atBase, decode |-> decode,
   insert |-> insert, basename |-> basename]

\* the image paths of the model: the empty path, a missing file, an image of
\* 401 pixels and one of 800, a relative path that exists under base_dir only
\* with an image of 576 pixels, a file that Image.open rejects and
\* add_picture takes, a file both reject
Images ==
  [path \in {"", "/img/gone.png", "/img/small.png", "/img/wide.png", "shots/rel.png",
             "/img/odd.png", "/img/corrupt.png"} |->
     CASE path = "" -> ImageFile(FALSE, FALSE, FALSE, 0, "fail", "")
       [] path = "/img/gone.png" -> ImageFile(TRUE, FALSE, FALSE, 0, "fail", "gone.png")
       [] path = "/img/small.png" -> ImageFile(TRUE, TRUE, FALSE, 401, "ok", "small.png")
       [] path = "/img/wide.png" -> ImageFile(TRUE, TRUE, FALSE, 800, "ok", "wide.png")
       [] path = "shots/rel.png" -> ImageFile(FALSE, FALSE, TRUE, 576, "ok", "rel.png")
       [] path = "/img/odd.png" -> ImageFile(TRUE, TRUE, FALSE, 0, "ok", "odd.png")
       [] OTHER -> ImageFile(TRUE, TRUE, FALSE, 0, "fail", "corrupt.png")]

\* _resolve_path(path): the path and whether os.path.exists holds of it
resolve_path(path) ==
  IF path = "" THEN [path |-> path, exists |-> FALSE]
  ELSE IF Images[path].isabs THEN [path |-> path, exists |-> Images[path].asGiven]
  ELSE IF Images[path].atBase THEN [path |-> "base_dir/" \o path, exists |-> TRUE]
  ELSE [path |-> path, exists |-> Images[path].asGiven]

\* a run with the picture of the file at the width
PictureRun(path, width) == [TextRun(<< >>) EXCEPT !.pic = [path |-> path, width |-> width]]

\* what a block of statements gives: the paragraph after it, and whether an
\* exception leaves it
Outcome(paragraph, raised) == [paragraph |-> paragraph, raised |-> raised]

\* a try whose except clause catches nothing
TryExcept_propagates(attempt, handler) == attempt

\* try: attempt / except Exception: handler
TryExcept(attempt, handler) == IF attempt.raised THEN handler ELSE attempt

\* a length is a whole number of EMU, 914400 to the inch; the EMU of a pixel
\* at 96 pixels per inch: 914400 / 96
EmuPerPixel == 9525

\* a limit max_width_inches is held as the EMU of that many inches; Inches()
\* of each limit of the model gives these EMU back
Inches6 == 5486400                                 \* max_width_inches = 6.0
Inches5_5 == 5029200                               \* max_width_inches = 5.5

\* the widths in pixels for which the double (img_width / 96) * 914400 lies
\* below the whole number img_width * 9525, among those of the model
FallsShort == {401}

\* a conversion that rounds up where the double product falls short
InchesOfPixels_rounded_up(img_width) ==
  IF img_width \in FallsShort THEN img_width * EmuPerPixel + 1 ELSE img_width * EmuPerPixel

\* Inches(img_width / 96), which is int((img_width / 96) * 914400): int() cuts
\* the double product down to a whole number of EMU
InchesOfPixels(img_width) ==
  IF img_width \in FallsShort THEN img_width * EmuPerPixel - 1 ELSE img_width * EmuPerPixel

\* _insert_image_run(paragraph, img_path, max_width_inches): the paragraph
\* after, and whether an exception leaves the method.  Image.open raises for a
\* file it cannot decode, run.add_picture for a file it cannot insert.
insert_image_run(paragraph, img_path, max_width) ==
  LET resolved == resolve_path(img_path)
      file == Images[img_path]
      img_width == file.decode
      with_run == AddRun(paragraph, TextRun(<< >>))
      last == Len(with_run.runs)
      picture(width) == [with_run EXCEPT !.runs[last] = PictureRun(resolved.path, width)]
      sized ==                                                   \* lines 58-70
        IF file.decode = 0 \/ file.insert = "fail" THEN Outcome(with_run, TRUE)
        ELSE IF img_width * EmuPerPixel > max_width              \* img_width > max * 96
             THEN Outcome(picture(max_width), FALSE)
             ELSE Outcome(picture(InchesOfPixels(img_width)), FALSE)
      at_max_width ==                                            \* line 74
        IF file.insert = "fail" THEN Outcome(with_run, TRUE)
        ELSE Outcome(picture(max_width), FALSE)
      error_run ==                                               \* line 76
        Outcome(AddRun(with_run, TextRun(<< "ImageInsertError" >>)), FALSE)
  IN  IF resolved.path = "" \/ ~resolved.exists
      THEN Outcome(AddRun(paragraph, TextRun(<< "ImageNotFound:", file.basename >>)), FALSE)
      ELSE TryExcept(sized, TryExcept(at_max_width, error_run))

\* an item of an image list: {'path': path, 'description': desc}; a plain
\* string item is an item with that path and no description
Item(path, desc) == [path |-> path, desc |-> desc]

\* the paragraphs the loops over an image list make (lines 97-118, 165-191),
\* from the h-th item on: one for the description if there is one, aligned
\* left, one for the image if there is a path, centred
RECURSIVE ItemParagraphs(_, _, _)
ItemParagraphs(image_list, h, max_width) ==
  IF h > Len(image_list) THEN [paras |-> << >>, raised |-> FALSE]
  ELSE LET item == image_list[h]
           desc == IF item.desc # << >>
                   THEN << Paragraph("left", << TextRun(item.desc) >>) >> ELSE << >>
           image == insert_image_run(Paragraph("none", << >>), item.path, max_width)
           rest == ItemParagraphs(image_list, h + 1, max_width)
       IN  IF item.path = "" THEN [paras |-> desc \o rest.paras, raised |-> rest.raised]
           ELSE IF image.raised THEN [paras |-> desc, raised |-> TRUE]
           ELSE [paras |-> (desc \o << [image.paragraph EXCEPT !.pPr = "center"] >>) \o rest.paras,
                 raised |-> rest.raised]

\* lines 87-94: the paragraphs of the cell are removed, and a cell without a
\* paragraph gets a new one
StartCell(cell) ==
  LET removed == [cell EXCEPT !.paras = << >>]
  IN  IF removed.paras = << >> THEN AddParagraph(removed, Paragraph("none", << >>)) ELSE removed

\* lines 121-125: the first paragraph is removed when it has no text and no
\* run and other paragraphs follow it
DropEmptyFirst(filled) ==
  IF /\ Len(filled.paras) > 0 /\ ParaText(filled.paras[1]) = << >> /\ filled.paras[1].runs = << >>
     /\ Len(filled.paras) > 1
  THEN [filled EXCEPT !.paras = Tail(@)] ELSE filled

\* lines 97-125: the paragraphs of the items are added to the cell
FillCell(started, items) ==
  IF items.raised THEN [cell |-> [started EXCEPT !.paras = @ \o items.paras], raised |-> TRUE]
  ELSE [cell |-> DropEmptyFirst([started EXCEPT !.paras = @ \o items.paras]), raised |-> FALSE]

\* the outcome with the cell emptied when all it holds is one paragraph
\* without runs
BareCell(out) ==
  IF ~out.raised /\ Len(out.cell.paras) = 1 /\ out.cell.paras[1].runs = << >>
  THEN [out EXCEPT !.cell.paras = << >>] ELSE out

\* a version that removes the empty first paragraph even when it is the only
\* paragraph of the cell
insert_images_into_cell_bare(cell, image_list) ==
  BareCell(FillCell(StartCell(cell), ItemParagraphs(image_list, 1, Inches5_5)))

\* insert_images_into_cell(cell, image_list): the cell after, and whether an
\* exception leaves the method
insert_images_into_cell(cell, image_list) ==
  FillCell(StartCell(cell), ItemParagraphs(image_list, 1, Inches5_5))

\* para.text = para.text.replace(placeholder, '') for a paragraph that has it
ClearToken(p, placeholder) ==
  IF In(placeholder, ParaText(p)) THEN SetText(p, Replace(ParaText(p), placeholder, << >>)) ELSE p

\* the cells of replace_placeholder_with_images (lines 138-145)
DIP_replace_in_cell(cell, placeholder, image_list) ==
  IF ~In(placeholder, CellText(cell)) THEN [cell |-> cell, raised |-> FALSE]
  ELSE LET cleared == [cell EXCEPT !.paras = [h \in 1..Len(cell.paras) |->
                                                ClearToken(cell.paras[h], placeholder)]]
       IN  IF image_list # << >> THEN insert_images_into_cell(cleared, image_list)
           ELSE [cell |-> cleared, raised |-> FALSE]

\* lines 135-145: what becomes of every cell of every table of the body
ReplacedCells(d, placeholder, image_list) ==
  [h \in 1..Len(d.body) |->
     IF d.body[h].kind = "tbl"
     THEN [c \in 1..Len(d.body[h].cells) |->
             DIP_replace_in_cell(d.body[h].cells[c], placeholder, image_list)]
     ELSE << >>]

\* lines 149-151: the paragraph of the body at h has the token
TargetParagraph(d, h, placeholder) ==
  d.body[h].kind = "p" /\ In(placeholder, ParaText(d.body[h]))

\* a version that leaves the paragraph that has the token in the body
ReplacedDocument_keeps_token(d, placeholder, cells, items) ==
  [doc |-> [d EXCEPT !.body =
              Flatten([h \in 1..Len(d.body) |->
                IF d.body[h].kind = "tbl"
                THEN << Table([c \in 1..Len(d.body[h].cells) |-> cells[h][c].cell]) >>
                ELSE IF TargetParagraph(d, h, placeholder) THEN << d.body[h] >> \o items.paras
                ELSE << d.body[h] >>])],
   raised |-> \/ \E h \in TablesOf(d.body) : \E c \in 1..Len(d.body[h].cells) : cells[h][c].raised
              \/ (items.raised /\ \E h \in 1..Len(d.body) : TargetParagraph(d, h, placeholder))]

\* the document with the cells as they became and, in the place of every
\* paragraph that has the token, the paragraphs of the items (lines 153-191)
ReplacedDocument(d, placeholder, cells, items) ==
  [doc |-> [d EXCEPT !.body =
              Flatten([h \in 1..Len(d.body) |->
                IF d.body[h].kind = "tbl"
                THEN << Table([c \in 1..Len(d.body[h].cells) |-> cells[h][c].cell]) >>
                ELSE IF TargetParagraph(d, h, placeholder) THEN items.paras
                ELSE << d.body[h] >>])],
   raised |-> \/ \E h \in TablesOf(d.body) : \E c \in 1..Len(d.body[h].cells) : cells[h][c].raised
              \/ (items.raised /\ \E h \in 1..Len(d.body) : TargetParagraph(d, h, placeholder))]

\* replace_placeholder_with_images(placeholder, image_list): the document
\* after, and whether an exception leaves the method.  In the tables the token
\* is cleared and the images fill the cell; a body paragraph that has the token
\* is removed and the paragraphs of the items stand in its place.
replace_placeholder_with_images(d, placeholder, image_list) ==
  ReplacedDocument(d, placeholder, ReplacedCells(d, placeholder, image_list),
                   ItemParagraphs(image_list, 1, Inches6))

\* the cells of doc.tables in the order of the loops: table by table, row by
\* row; each as the position of its table in the body and its place there
CellSlots(body) ==
  Flatten([h \in 1..Len(body) |->
             IF body[h].kind = "tbl"
             THEN [c \in 1..Len(body[h].cells) |-> [blk |-> h, c |-> c]] ELSE << >>])

\* the slot of the cell object with the id
SlotOf(body, id) ==
  LET slots == CellSlots(body)
  IN  slots[CHOOSE h \in 1..Len(slots) : body[slots[h].blk].cells[slots[h].c].id = id]

\* the first element of the sequence that satisfies Test, 0 if none does
FirstWhere(seq, Test(_)) ==
  IF \E h \in 1..Len(seq) : Test(seq[h])
  THEN CHOOSE h \in 1..Len(seq) : Test(seq[h]) /\ \A g \in 1..(h - 1) : ~Test(seq[g])
  ELSE 0

\* "#screenshotoffiling#"
screenshotoffiling == Token("screenshotoffiling")

\* the insertion of text_with_image into the target cell (lines 234-266)
DIP_into_cell(cell, content, img_path, keyword) ==
  LET started == IF cell.paras = << >> THEN AddParagraph(cell, Paragraph("none", << >>)) ELSE cell
      described == IF content # << >> /\ content # keyword
                   THEN AddParagraph(started, Paragraph("left", << TextRun(content) >>))
                   ELSE started
      image == insert_image_run(Paragraph("none", << >>), img_path, cell.width)
      filled == AddParagraph(described, [image.paragraph EXCEPT !.pPr = "center"])
  IN  IF cell.width = NoWidth THEN [cell |-> cell, raised |-> TRUE]  \* None / 914400: TypeError
      ELSE IF image.raised THEN [cell |-> described, raised |-> TRUE]
      ELSE IF IsBlank(ParaText(filled.paras[1])) /\ Len(filled.paras) > 1
           THEN [cell |-> [filled EXCEPT !.paras = Tail(@)], raised |-> FALSE]
           ELSE [cell |-> filled, raised |-> FALSE]

\* the insertion of text_with_image after the target paragraph (lines 268-296):
\* the paragraphs that stand in its place
DIP_after_paragraph(paragraph, content, img_path, keyword) ==
  LET desc == IF content # << >> /\ content # keyword
              THEN << Paragraph("left", << TextRun(content) >>) >> ELSE << >>
      image == insert_image_run(Paragraph("none", << >>), img_path, Inches6)
      added == desc \o << [image.paragraph EXCEPT !.pPr = "center"] >>
  IN  IF image.raised THEN [paras |-> << paragraph >> \o desc, raised |-> TRUE]
      ELSE IF IsBlank(ParaText(paragraph)) THEN [paras |-> added, raised |-> FALSE]
      ELSE [paras |-> << paragraph >> \o added, raised |-> FALSE]

\* text_with_image(content, img_path, keyword), keyword "" for None: the
\* document and evidence_cell_cache after, the cell or the paragraph of the
\* body the image went to (0 for none), and whether an exception leaves the
\* method
text_with_image(d, cell_cache, content, img_path, keyword0) ==
  LET keyword == IF content = screenshotoffiling THEN screenshotoffiling ELSE keyword0
      cached == keyword # << >> /\ keyword # screenshotoffiling /\ cell_cache # 0
      slots == CellSlots(d.body)
      hasKey(slot) == In(keyword, CellText(d.body[slot.blk].cells[slot.c]))
      hit == IF keyword # << >> /\ ~cached THEN FirstWhere(slots, hasKey) ELSE 0
      hitCell == d.body[slots[hit].blk].cells[slots[hit].c]
      \* lines 215-219: the token is cleared in the cell found, which is cached
      d1 == IF hit = 0 THEN d
            ELSE [d EXCEPT !.body[slots[hit].blk].cells[slots[hit].c] =
                    SetCellText(@, Replace(CellText(@), keyword, << >>))]
      cache1 == IF hit # 0 /\ keyword # screenshotoffiling THEN hitCell.id ELSE cell_cache
      target_cell == IF cached THEN cell_cache ELSE IF hit # 0 THEN hitCell.id ELSE 0
      \* lines 225-231: else the first paragraph of the body that has the token
      paras == [h \in 1..Len(d.body) |-> h]
      hasKeyP(h) == d.body[h].kind = "p" /\ In(keyword, ParaText(d.body[h]))
      target_paragraph == IF target_cell = 0 /\ keyword # << >>
                          THEN FirstWhere(paras, hasKeyP) ELSE 0
  IN  IF target_cell # 0
      THEN LET slot == SlotOf(d1.body, target_cell)
               into == DIP_into_cell(d1.body[slot.blk].cells[slot.c], content, img_path, keyword)
           IN  [doc |-> [d1 EXCEPT !.body[slot.blk].cells[slot.c] = into.cell],
                cache |-> cache1, cell |-> target_cell, para |-> 0, raised |-> into.raised]
      ELSE IF target_paragraph # 0
      THEN LET cleared == SetText(d.body[target_paragraph],
                                  Replace(ParaText(d.body[target_paragraph]), keyword, << >>))
               after == DIP_after_paragraph(cleared, content, img_path, keyword)
           IN  [doc |-> [d EXCEPT !.body = (SubSeq(d.body, 1, target_paragraph - 1) \o after.paras)
                                              \o SubSeq(d.body, target_paragraph + 1, Len(d.body))],
                cache |-> cell_cache, cell |-> 0, para |-> target_paragraph,
                raised |-> after.raised]
      ELSE [doc |-> d, cache |-> cell_cache, cell |-> 0, para |-> 0, raised |-> FALSE]

(***************************************************************************)
(* BaseTemplateHandler.process_single_image and process_image_list, called *)
(* with a DocumentImageProcessor on the document.                          *)
(***************************************************************************)
\* process_single_image(img_processor, placeholder, image_data), image_data ""
\* for None or an empty path: the document and the cache after, and whether an
\* exception leaves the method.  os.path.exists is asked of the path as given.
process_single_image(d, cell_cache, placeholder, image_data) ==
  IF image_data # "" /\ Images[image_data].asGiven
  THEN text_with_image(d, cell_cache, placeholder, image_data, << >>)
  ELSE [cache |-> cell_cache] @@ replace_placeholder_with_images(d, placeholder, << >>)

\* the loop of process_image_list over the items from the h-th on: one call of
\* text_with_image for every item whose path exists; acc holds the document
\* and the cache so far, and whether an exception left the loop
RECURSIVE ProcessItems(_, _, _, _)
ProcessItems(acc, images, h, keyword) ==
  IF h > Len(images) \/ acc.raised THEN acc
  ELSE ProcessItems(IF images[h].path # "" /\ Images[images[h].path].asGiven
                    THEN text_with_image(acc.doc, acc.cache, images[h].desc, images[h].path, keyword)
                    ELSE acc,
                    images, h + 1, keyword)

\* process_image_list(img_processor, placeholder, images, keyword), keyword ""
\* for None
process_image_list(d, cell_cache, placeholder, images, keyword) ==
  IF images # << >>
  THEN ProcessItems([doc |-> d, cache |-> cell_cache, raised |-> FALSE], images, 1,
                    IF keyword # << >> THEN keyword ELSE placeholder)
  ELSE [cache |-> cell_cache] @@ replace_placeholder_with_images(d, placeholder, << >>)

(***************************************************************************)
(* The documents, the maps and the image lists the calls are made with.    *)
(***************************************************************************)
name == Token("name")
toc == Token("toc")
evidence == Token("evidence")
log_evidence == Token("log_evidence")

\* a report template: tokens in body paragraphs, in cells, in the header and
\* in the footer; a paragraph that is the TOC token and, before it, one that
\* has it within a sentence; a cell without a width
Template ==
  Document(<< P(<< "Report", " " >> \o name),
              P((<< "Level", " " >> \o risk_level_key) \o (<< " ", "of", " " >> \o name)),
              P(<< "See", " " >> \o toc),
              P(toc),
              Table(<< Cell(1, CellWidth, << P(evidence) >>),
                       Cell(2, CellWidth, << P(<< "Logs" >>), P(log_evidence) >>),
                       Cell(3, NoWidth, << P(screenshotoffiling) >>),
                       Cell(4, CellWidth, << P(risk_level_key \o name) >>) >>),
              P(<< "Evidence", " " >> \o evidence),
              P(Token("unmapped")) >>,
           Region(<< P(name) >>, << Table(<< Cell(5, CellWidth, << P(name) >>) >>) >>),
           Region(<< P(name) >>, << Table(<< Cell(6, CellWidth, << P(name) >>) >>) >>),
           << >>)

\* a document whose TOC token stands alone, with a table before it, settings
\* that hold updateFields set to false, and paragraphs of several runs
Plain ==
  Document(<< Paragraph("body", << TextRun(<< "Summary" >>), TextRun(<< " " >>) >>),
              Table(<< Cell(1, CellWidth, << P(<< "Host" >>) >>),
                       Cell(2, CellWidth, << P(evidence), P(<< "Note" >>) >>) >>),
              P(toc),
              Paragraph("body", << TextRun(<< "#", "name" >>), TextRun(<< "#" >>) >>),
              P(screenshotoffiling) >>,
           Region(<< >>, << >>),
           Region(<< P(<< "Page" >>) >>, << >>),
           << "false" >>)

\* a document without tokens
NoTokens ==
  Document(<< P(<< "Summary" >>), Table(<< Cell(1, CellWidth, << P(<< "Host" >>) >>) >>),
              P(<< "Costs", " ", "#", "1" >>) >>,
           Region(<< P(<< "Acme" >>) >>, << >>),
           Region(<< >>, << >>),
           << "true" >>)

Documents == {Template, Plain, NoTokens}

\* an item of a placeholder map
KV(key, value) == [key |-> key, value |-> value]

\* the placeholder maps, each the sequence of its items
Maps ==
  { << KV(name, << "Acme" >>) >>,
    << KV(name, << "Acme", "\n", "Corp" >>) >>,
    << KV(name, << "Acme", "\n" >>) >>,
    << KV(risk_level_key, << "HighRisk" >>), KV(name, << "Acme" >>) >>,
    << KV(risk_level_key, << "Unrated" >>), KV(evidence, << >>) >>,
    << KV(Token("absent"), << "Zed" >>), KV(Token("risk"), << "HighRisk" >>) >> }

\* the image lists
ImageLists ==
  { << >>,
    << Item("/img/small.png", << "Figure" >>) >>,
    << Item("", << >>) >>,
    << Item("/img/gone.png", << >>), Item("/img/corrupt.png", << "Figure" >>) >>,
    << Item("", << "Figure" >>), Item("/img/wide.png", << >>) >> }

\* the image lists process_image_list is called with: none, one that names a
\* missing file, two existing images without and with descriptions
ImageSeries ==
  { << >>,
    << Item("/img/gone.png", << >>) >>,
    << Item("/img/small.png", << >>), Item("/img/wide.png", << >>) >>,
    << Item("/img/small.png", << "Figure" >>), Item("/img/wide.png", << "Chart" >>) >> }

\* the arguments of text_with_image: content, img_path, keyword ("" for None)
ImageCalls ==
  { << << "Figure" >>, "/img/small.png", evidence >>,
    << << "Figure" >>, "/img/wide.png", log_evidence >>,
    << screenshotoffiling, "/img/odd.png", << >> >>,
    << evidence, "shots/rel.png", evidence >> }

(***************************************************************************)
(* The calls on the open document.                                         *)
(***************************************************************************)
\* a call can be made on the open document
Callable == doc.open /\ calls < MaxCalls

\* a call is made: it leads to document d and cache c, and is recorded as r
Called(d, c, r) ==
  /\ doc' = d /\ pre' = doc /\ cache' = c /\ call' = r /\ calls' = calls + 1
  /\ UNCHANGED << mergeVars, pack >>

DE_ReplaceReportText ==
  /\ Callable
  /\ \E replacements \in Maps, enable_risk_color \in BOOLEAN :
       Called(replace_report_text(doc, replacements, enable_risk_color), cache,
              [op |-> "replace_report_text", replacements |-> replacements,
               enable_risk_color |-> enable_risk_color, raised |-> FALSE])

BH_ReplaceTextInDocument ==
  /\ Callable
  /\ \E replacements \in Maps :
       Called(BH_replace_text_in_document(doc, replacements), cache,
              [op |-> "replace_text_in_document", replacements |-> replacements,
               raised |-> FALSE])

DE_InsertTocAtPlaceholder ==
  /\ Callable
  /\ \E r \in {insert_toc_at_placeholder(doc, toc, << "Contents" >>)} :
         Called(r.doc, cache,
                [op |-> "insert_toc_at_placeholder", placeholder |-> toc,
                 toc_title |-> << "Contents" >>, ret |-> r.ret, raised |-> FALSE])

\* DocumentImageProcessor(doc): a new processor on the open document
DIP_Init ==
  /\ doc.open /\ cache # 0
  /\ cache' = 0
  /\ UNCHANGED << doc, pre, call, calls >>
  /\ UNCHANGED << mergeVars, pack >>

DIP_ReplacePlaceholderWithImages ==
  /\ Callable
  /\ \E placeholder \in {evidence, log_evidence}, image_list \in ImageLists :
       \E r \in {replace_placeholder_with_images(doc, placeholder, image_list)} :
           Called(r.doc, cache,
                  [op |-> "replace_placeholder_with_images", placeholder |-> placeholder,
                   image_list |-> image_list, raised |-> r.raised])

DIP_TextWithImage ==
  /\ Callable
  /\ \E a \in ImageCalls :
       \E r \in {text_with_image(doc, cache, a[1], a[2], a[3])} :
           Called(r.doc, r.cache,
                  [op |-> "text_with_image", content |-> a[1], img_path |-> a[2],
                   keyword |-> IF a[1] = screenshotoffiling THEN screenshotoffiling ELSE a[3],
                   cell |-> r.cell, para |-> r.para, cache |-> cache, raised |-> r.raised])

DIP_InsertImagesIntoCell ==
  /\ Callable
  /\ \E h \in 1..Len(CellSlots(doc.body)), image_list \in ImageLists :
       \E slot \in {CellSlots(doc.body)[h]} :
         \E r \in {insert_images_into_cell(doc.body[slot.blk].cells[slot.c], image_list)} :
           Called([doc EXCEPT !.body[slot.blk].cells[slot.c] = r.cell], cache,
                  [op |-> "insert_images_into_cell", slot |-> slot, image_list |-> image_list,
                   raised |-> r.raised])

\* _insert_image_run on the last paragraph of the body
DIP_InsertImageRun ==
  /\ Callable
  /\ \E img_path \in DOMAIN Images, max_width \in {Inches6, Inches5_5, CellWidth} :
       \E h \in {h \in ParagraphsOf(doc.body) : \A g \in ParagraphsOf(doc.body) : g <= h} :
         \E r \in {insert_image_run(doc.body[h], img_path, max_width)} :
           Called([doc EXCEPT !.body[h] = r.paragraph], cache,
                  [op |-> "_insert_image_run", para |-> h, img_path |-> img_path,
                   max_width |-> max_width, raised |-> r.raised])

BH_ProcessSingleImage ==
  /\ Callable
  /\ \E placeholder \in {evidence, screenshotoffiling},
        image_data \in {"", "/img/gone.png", "/img/small.png"} :
       \E r \in {process_single_image(doc, cache, placeholder, image_data)} :
           Called(r.doc, r.cache,
                  [op |-> "process_single_image", placeholder |-> placeholder,
                   image_data |-> image_data, raised |-> r.raised])

BH_ProcessImageList ==
  /\ Callable
  /\ \E placeholder \in {evidence, log_evidence, screenshotoffiling}, images \in ImageSeries :
       \E r \in {process_image_list(doc, cache, placeholder, images, << >>)} :
           Called(r.doc, r.cache,
                  [op |-> "process_image_list", placeholder |-> placeholder,
                   images |-> images, raised |-> r.raised])

\* no merge and no save runs
MergeIdle ==
  /\ job = [s \in Sessions |-> NoJob]
  /\ loc = [s \in Sessions |-> Idle]
  /\ tmp = [d \in TempDirs |-> Absent]
  /\ fs = FsWith({})
  /\ fs0 = {}

InitDoc ==
  /\ MergeIdle
  /\ doc \in Documents
  /\ pre = NoDoc /\ call = NoCall /\ cache = 0 /\ calls = 0
  /\ pack = NoPack

NextDoc ==
  \/ DE_ReplaceReportText
  \/ BH_ReplaceTextInDocument
  \/ DE_InsertTocAtPlaceholder
  \/ DIP_Init
  \/ DIP_ReplacePlaceholderWithImages
  \/ DIP_TextWithImage
  \/ DIP_InsertImagesIntoCell
  \/ DIP_InsertImageRun
  \/ BH_ProcessSingleImage
  \/ BH_ProcessImageList

SpecDoc == InitDoc /\ [][NextDoc]_vars

(***************************************************************************)
(* What the claims about the editor speak of.                              *)
(***************************************************************************)
\* the paragraphs of the cells of a table
TableParas(t) == Flatten([c \in 1..Len(t.cells) |-> t.cells[c].paras])

\* the paragraphs of the body and of the cells of its tables, in document order
BodyParas(body) ==
  Flatten([h \in 1..Len(body) |-> IF body[h].kind = "p" THEN << body[h] >> ELSE TableParas(body[h])])

\* the paragraphs of a header or a footer and of the cells of its tables
RegionParas(r) == r.paras \o Flatten([t \in 1..Len(r.tables) |-> TableParas(r.tables[t])])

\* every paragraph of the document
AllParas(d) == (BodyParas(d.body) \o RegionParas(d.header)) \o RegionParas(d.footer)

\* the key occurs in a paragraph of the sequence
OccursIn(key, paras) == \E h \in 1..Len(paras) : In(key, ParaText(paras[h]))

\* the last call was replace_report_text
Replaced == call.op = "replace_report_text"

\* no key of the map of the last call occurred in the document
NoKeyOccurred ==
  \A h \in 1..Len(call.replacements) : ~OccursIn(call.replacements[h].key, AllParas(pre))

\* C11: replace_report_text with a map none of whose keys occurs in the
\* document leaves the document as it was (every paragraph, run, cell, header
\* and footer), with the colour mode on or off; the tokens of the document,
\* none of which has a key in the map, stay in place and no error is raised.
C11_NoKeyNoChange ==
  (Replaced /\ NoKeyOccurred) => (doc = pre /\ ~call.raised)

\* replace_report_text ran, with the colour mode on, with a map that has the
\* risk-level key and no key of the document, on a document that has tokens,
\* one of them in a paragraph of several runs
C11_Witness ==
  /\ Replaced /\ NoKeyOccurred /\ call.enable_risk_color
  /\ \E h \in 1..Len(call.replacements) :
       call.replacements[h].value \in DOMAIN RISK_LEVEL_COLORS
  /\ \E h \in 1..Len(pre.body) :
       pre.body[h].kind = "p" /\ Len(pre.body[h].runs) > 1 /\ In(<< "#" >>, ParaText(pre.body[h]))
  /\ OccursIn(<< "#" >>, RegionParas(pre.footer)) \/ OccursIn(<< "#" >>, BodyParas(pre.body))

\* the keys of the map of the last call other than the risk-level key that
\* occur in the text
OtherKeysIn(text) ==
  {call.replacements[h].key : h \in {g \in 1..Len(call.replacements) :
      call.replacements[g].key # risk_level_key /\ In(call.replacements[g].key, text)}}

\* C12: with the colour mode on and a known level label as the value of the
\* risk-level key, a paragraph of the body or of a cell that has the
\* risk-level token and other tokens that are keys of the map shows, after
\* replace_report_text, the level label in a coloured bold run, and none of
\* those other tokens is left in it.
C12_ColourAndOtherTokens ==
  ( /\ Replaced /\ call.enable_risk_color
    /\ Get(call.replacements, risk_level_key) \in DOMAIN RISK_LEVEL_COLORS
    /\ Len(BodyParas(doc.body)) = Len(BodyParas(pre.body)) )
  => \A h \in 1..Len(BodyParas(pre.body)) :
       LET before == ParaText(BodyParas(pre.body)[h])
           after == BodyParas(doc.body)[h]
       IN  (In(risk_level_key, before) /\ OtherKeysIn(before) # {}) =>
             /\ \E r \in 1..Len(after.runs) :
                  /\ after.runs[r].text = Get(call.replacements, risk_level_key)
                  /\ after.runs[r].bold /\ after.runs[r].color # "none"
             /\ \A key \in OtherKeysIn(before) : ~In(key, ParaText(after))

\* the text with every item of the map of the last call replaced in turn
Substituted(text) == ReplaceItems(text, FALSE, call.replacements, 1).full_text

\* a value with a newline is used in the text
MultiLine(text) ==
  \E h \in 1..Len(call.replacements) :
    In(call.replacements[h].key, text) /\ In(<< "\n" >>, call.replacements[h].value)

\* the lines of the text that are not empty
LinesOf(text) ==
  LET notBlank(line) == ~IsBlank(line)
  IN  SelectSeq(Split(text, << "\n" >>), notBlank)

\* the texts of the paragraphs of the body
BodyTexts(body) ==
  LET isP(b) == b.kind = "p"
      ps == SelectSeq(body, isP)
  IN  [h \in 1..Len(ps) |-> ParaText(ps[h])]

\* C13: after replace_report_text (colour mode off) the paragraphs of the body
\* are, in order: for a paragraph in which a value with a newline is used, one
\* paragraph for every non-empty line of its substituted text, none empty and
\* none with a newline, also when only one line is non-empty; for any other
\* paragraph, the paragraph with its substituted text.
C13_OneParagraphPerLine ==
  (Replaced /\ ~call.enable_risk_color) =>
    BodyTexts(doc.body) =
      Flatten([h \in 1..Len(BodyTexts(pre.body)) |->
                 LET text == BodyTexts(pre.body)[h]
                 IN  IF MultiLine(text) THEN LinesOf(Substituted(text))
                     ELSE << Substituted(text) >>])

\* C14: after replace_report_text or replace_text_in_document with a map whose
\* values hold no '#', no key of the map is left in a paragraph of the body,
\* of a cell of a body table, of the header or a cell of its tables, or of the
\* footer or a cell of its tables.
C14_EveryRegionSubstituted ==
  ( /\ call.op \in {"replace_report_text", "replace_text_in_document"}
    /\ \A h \in 1..Len(call.replacements) : ~In(<< "#" >>, call.replacements[h].value) )
  => \A h \in 1..Len(call.replacements) :
       ~OccursIn(call.replacements[h].key, AllParas(doc))

\* the cells of the tables of a body
CellsOf(body) ==
  LET slots == CellSlots(body)
  IN  [h \in 1..Len(slots) |-> body[slots[h].blk].cells[slots[h].c]]

\* a run of the paragraph holds a picture
HasPicture(p) == \E r \in 1..Len(p.runs) : p.runs[r].pic # NoPic

\* C15: replace_placeholder_with_images(token, []) takes the token out of the
\* text of every body paragraph and of every cell paragraph that has it, and
\* keeps the rest of that text; it deletes no paragraph and no cell, and it
\* inserts no image.
C15_EmptyListClearsTokenOnly ==
  (call.op = "replace_placeholder_with_images" /\ call.image_list = << >>) =>
    /\ Len(doc.body) = Len(pre.body)
    /\ \A h \in 1..Len(pre.body) : doc.body[h].kind = pre.body[h].kind
    /\ Len(BodyParas(doc.body)) = Len(BodyParas(pre.body))
    /\ \A h \in 1..Len(BodyParas(pre.body)) :
         /\ ParaText(BodyParas(doc.body)[h])
              = Replace(ParaText(BodyParas(pre.body)[h]), call.placeholder, << >>)
         /\ HasPicture(BodyParas(doc.body)[h]) = HasPicture(BodyParas(pre.body)[h])
    /\ Len(CellsOf(doc.body)) = Len(CellsOf(pre.body))
    /\ \A h \in 1..Len(CellsOf(pre.body)) :
         Len(CellsOf(doc.body)[h].paras) = Len(CellsOf(pre.body)[h].paras)

\* the first cell of the tables of the document before the call whose text
\* has the key, 0 if none has it
FirstCellWith(key) ==
  LET cells == CellsOf(pre.body)
      hasKey(c) == In(key, CellText(c))
  IN  FirstWhere(cells, hasKey)

\* the first paragraph of the body before the call whose text has the key, as
\* its position in the body, 0 if none has it
FirstParagraphWith(key) ==
  LET positions == [h \in 1..Len(pre.body) |-> h]
      hasKey(h) == pre.body[h].kind = "p" /\ In(key, ParaText(pre.body[h]))
  IN  FirstWhere(positions, hasKey)

\* the cell with the id in the document
CellById(d, id) == d.body[SlotOf(d.body, id).blk].cells[SlotOf(d.body, id).c]

\* C16: a call text_with_image(content, path, keyword=token) that returns puts
\* its image into the first cell whose text has its token and clears the token
\* there, or else into the body after the first paragraph that has the token;
\* it puts its image into no cell that was found for another token by an
\* earlier call.
C16_ImageAtItsOwnToken ==
  (call.op = "text_with_image" /\ call.keyword # << >> /\ ~call.raised) =>
    IF FirstCellWith(call.keyword) # 0
    THEN /\ call.cell = CellsOf(pre.body)[FirstCellWith(call.keyword)].id
         /\ ~In(call.keyword, CellText(CellById(doc, call.cell)))
         /\ \E h \in 1..Len(CellById(doc, call.cell).paras) :
              CellById(doc, call.cell).paras[h].runs # << >>
              /\ CellById(doc, call.cell).paras[h].pPr = "center"
    ELSE /\ call.cell = 0
         /\ call.para = FirstParagraphWith(call.keyword)

\* C17: _insert_image_run lets no exception out, whatever the path is.  For an
\* empty path or a file that does not exist it adds a text run that names the
\* base name of the path; for a file whose size cannot be read it inserts the
\* picture at the largest width; when that insertion fails too it adds a text
\* run that reports the error.
C17_ImageRunNeverRaises ==
  call.op = "_insert_image_run" =>
    LET before == pre.body[call.para].runs
        after == doc.body[call.para].runs
        file == Images[call.img_path]
        resolved == resolve_path(call.img_path)
    IN  /\ ~call.raised
        /\ doc = [pre EXCEPT !.body[call.para].runs = after]
        /\ IF call.img_path = "" \/ ~resolved.exists
           THEN after = Append(before, TextRun(<< "ImageNotFound:", file.basename >>))
           ELSE IF file.insert = "fail"
           THEN after = before \o << TextRun(<< >>), TextRun(<< "ImageInsertError" >>) >>
           ELSE IF file.decode = 0
           THEN after = Append(before, PictureRun(resolved.path, call.max_width))
           ELSE /\ Len(after) = Len(before) + 1
                /\ after[Len(after)].pic # NoPic
                /\ after[Len(after)].pic.path = resolved.path

\* _insert_image_run was called on a file that exists and that neither
\* Image.open nor add_picture takes, and it added the run that reports the error
C17_Witness ==
  /\ call.op = "_insert_image_run"
  /\ call.img_path = "/img/corrupt.png"
  /\ ~call.raised
  /\ ParaText(doc.body[call.para]) = ParaText(pre.body[call.para]) \o << "ImageInsertError" >>

\* the items of the list that have a description, and those that have a path
Described(image_list) == {h \in 1..Len(image_list) : image_list[h].desc # << >>}
WithPath(image_list) == {h \in 1..Len(image_list) : image_list[h].path # ""}

\* C18: insert_images_into_cell removes every paragraph the cell held and then
\* inserts the items: a paragraph for each description and one for each path.
\* The cell has at least one paragraph afterwards, also for an empty list and
\* for items that have neither a path nor a description.
C18_CellKeepsAParagraph ==
  call.op = "insert_images_into_cell" =>
    LET cell == doc.body[call.slot.blk].cells[call.slot.c]
        made == Cardinality(Described(call.image_list)) + Cardinality(WithPath(call.image_list))
    IN  /\ ~call.raised
        /\ Len(cell.paras) >= 1
        /\ Len(cell.paras) = IF made = 0 THEN 1 ELSE made
        /\ \A h \in 1..Len(cell.paras) : cell.paras[h].pPr \in {"none", "left", "center"}
        /\ made = 0 => cell.paras[1].runs = << >>
        /\ doc = [pre EXCEPT !.body[call.slot.blk].cells[call.slot.c].paras = cell.paras]

\* insert_images_into_cell was called with an item that has neither a path nor
\* a description on a cell of two paragraphs with text, and left one paragraph
C18_Witness ==
  /\ call.op = "insert_images_into_cell"
  /\ call.image_list = << Item("", << >>) >>
  /\ Len(pre.body[call.slot.blk].cells[call.slot.c].paras) = 2
  /\ CellText(pre.body[call.slot.blk].cells[call.slot.c]) # << "\n" >>
  /\ Len(doc.body[call.slot.blk].cells[call.slot.c].paras) = 1

\* the text without the white space at its ends
RECURSIVE Trim(_)
Trim(text) ==
  IF text = << >> THEN text
  ELSE IF Head(text) \in {" ", "\n"} THEN Trim(Tail(text))
  ELSE IF text[Len(text)] \in {" ", "\n"} THEN Trim(SubSeq(text, 1, Len(text) - 1))
  ELSE text

\* C19: insert_toc_at_placeholder returns false and leaves the document as it
\* was when the trimmed text of no body paragraph is the token; a paragraph
\* that has the token inside a longer text is no match, and is neither replaced
\* nor removed.
C19_SubstringIsNoMatch ==
  call.op = "insert_toc_at_placeholder" =>
    /\ (\A h \in ParagraphsOf(pre.body) : Trim(ParaText(pre.body[h])) # call.placeholder)
         => (~call.ret /\ doc = pre)
    /\ \A h \in ParagraphsOf(pre.body) :
         ( /\ In(call.placeholder, ParaText(pre.body[h]))
           /\ Trim(ParaText(pre.body[h])) # call.placeholder )
         => \E g \in ParagraphsOf(doc.body) : doc.body[g] = pre.body[h]

\* the parts of the field that the runs of a paragraph hold, in order
FieldParts(p) == [h \in 1..Len(p.runs) |-> p.runs[h].fld]

\* C20: when insert_toc_at_placeholder returns true, the paragraph it located
\* (the first paragraph of the body that has the token) is gone; where it was
\* stand the title paragraph, centred and bold, and right after it the
\* paragraph of the TOC field with the runs field begin, instruction,
\* separator, text to be replaced, field end.  The other blocks of the body
\* are as they were and in the same order, and the settings hold one
\* updateFields element, with the value true, after every call.
C20_TocReplacesTokenParagraph ==
  (call.op = "insert_toc_at_placeholder" /\ call.ret) =>
    LET h == FirstParagraphWith(call.placeholder)
    IN  /\ h # 0
        /\ Len(doc.body) = Len(pre.body) + 1
        /\ SubSeq(doc.body, 1, h - 1) = SubSeq(pre.body, 1, h - 1)
        /\ SubSeq(doc.body, h + 2, Len(doc.body)) = SubSeq(pre.body, h + 1, Len(pre.body))
        /\ doc.body[h].kind = "p" /\ doc.body[h].pPr = "center"
        /\ Len(doc.body[h].runs) = 1 /\ doc.body[h].runs[1].bold
        /\ ParaText(doc.body[h]) = call.toc_title
        /\ doc.body[h + 1].kind = "p"
        /\ FieldParts(doc.body[h + 1])
             = << "begin", "instrText TOC", "separate", "none", "end" >>
        /\ doc.body[h + 1].runs[4].text # << >>
        /\ doc.updateFields = << "true" >>
        /\ doc.header = pre.header /\ doc.footer = pre.footer

\* insert_toc_at_placeholder returned true for the second time on a document
\* that already had a TOC field and the updateFields element
C20_Witness ==
  /\ call.op = "insert_toc_at_placeholder" /\ call.ret
  /\ calls = 2
  /\ pre.updateFields = << "true" >>
  /\ \E h \in ParagraphsOf(pre.body) : FieldParts(pre.body[h])[1] = "begin"
  /\ Cardinality({h \in ParagraphsOf(doc.body) : FieldParts(doc.body[h])[1] = "begin"}) = 2

(***************************************************************************)
(* The relationships, references and media of the sources of a merge.      *)
(***************************************************************************)
\* the file the k-th turn of the loop of session s was for
SourceAt(s, k) == IF job[s].impl = "DM" THEN job[s].files[k + 1] ELSE loc[s].valid[k + 1]

\* the k-th turn of the loop merged its file and did not skip it
MergedAt(s, k) == Catalogue[SourceAt(s, k)].state = "docx"

\* C21: while a source is merged, every relationship of its relationship part,
\* an image or not and whatever its target, gets a new Id; the pair of the old
\* and the new Id is in the remap table of the source, and an entry with the
\* new Id is in the relationship part of the accumulator.
C21_EveryRelationshipRemapped ==
  \A s \in Sessions :
    (Merger(s) /\ loc[s].pc = "merge") =>
      \A k \in 1..Len(loc[s].idmaps) :
        MergedAt(s, k) =>
          \A h \in 1..Len(Catalogue[SourceAt(s, k)].rels) :
            LET old == Catalogue[SourceAt(s, k)].rels[h].Id
                base_rels == StageAt(TempOf(job[s])).base.rels
            IN  /\ old \in DOMAIN loc[s].idmaps[k]
                /\ \E g \in 1..Len(base_rels) : base_rels[g].Id = loc[s].idmaps[k][old]

\* the block with its embed reference looked up once in the remap table
Remapped(b, id_mapping) ==
  IF b.ref.form # "none" /\ b.ref.id \in DOMAIN id_mapping
  THEN [b EXCEPT !.ref.id = id_mapping[b.ref.id]]
  ELSE b

\* session s takes a turn of its loop that merges a source
MergesSource(s) ==
  /\ Merger(s) /\ loc[s].pc = "merge" /\ loc'[s].pc = "merge"
  /\ Len(loc'[s].idmaps) = Len(loc[s].idmaps) + 1
  /\ Catalogue[NextFile(job[s], loc[s])].state = "docx"

\* C22: when the blocks of a source are appended to the accumulator, every
\* embed reference of them (r:embed of a drawing, r:id of a v:imagedata) whose
\* old Id is in the remap table of the source holds the new Id, looked up once;
\* a reference whose Id is not in the table is as it was, and the references
\* that were in the body of the accumulator before are as they were.
C22_ReferencesRemappedOnce ==
  [][ \A s \in Sessions :
        MergesSource(s) =>
          LET before == loc[s].body
              after == loc'[s].body
              blocks == Blocks(NextFile(job[s], loc[s]))
              id_mapping == loc'[s].idmaps[Len(loc'[s].idmaps)]
          IN  /\ Len(after) = Len(before) + 1 + Len(blocks)
              /\ SubSeq(after, 1, Len(before)) = before
              /\ \A h \in 1..Len(blocks) :
                   after[Len(before) + 1 + h] = Remapped(blocks[h], id_mapping) ]_vars

\* the media directory of the accumulator of session s
BaseMedia(s) == tmp[TempOf(job[s])].base.media

\* C23: copying the media of a source into the accumulator overwrites no file
\* that was in the media directory of the accumulator: every file that was
\* there before the copy is there after it, under its name and with its bytes,
\* also a file of the first source whose name ends in the suffix of a source.
C23_MediaNeverOverwritten ==
  [][ \A s \in Sessions :
        MergesSource(s) => \A m \in BaseMedia(s) : m \in BaseMedia(s)' ]_vars

\* the bytes the embed reference resolves to in a package: those of the media
\* files that are the target of a relationship with the Id of the reference
Blobs(ref, rels, media) ==
  {m.blob : m \in {x \in media : \E h \in 1..Len(rels) :
                      rels[h].Id = ref.id /\ rels[h].Target = MediaTarget(x.name)}}

\* the package a block was copied from
PackageOf(b) ==
  CHOOSE path \in Paths :
    b.n \in 1..Len(Catalogue[path].body) /\ Catalogue[path].body[b.n].src = b.src

\* C29: after a merge, every image reference in the blocks copied from a
\* source resolves, through the relationship part of the output, to a media
\* file with the bytes of the file that the reference resolved to in its
\* source, and to no image of the accumulator or of another source.
C29_CopiedReferencesKeepTheirImage ==
  \A s \in Sessions :
    Merged(s) =>
      LET out == OutFile(s)
      IN  \A h \in (Len(Blocks(BaseOf(s))) + 1)..Len(out.body) :
            (out.body[h].kind = "p" /\ out.body[h].src # "") =>
              LET source == Catalogue[PackageOf(out.body[h])]
                  ref == source.body[out.body[h].n].ref
                  bytes == Blobs(ref, source.rels, source.media)
              IN  (ref.form # "none" /\ bytes # {}) =>
                    Blobs(out.body[h].ref, out.rels, out.media) = bytes

(***************************************************************************)
(* Packing a staged package directory into an archive: create_docx of      *)
(* merge_docx.py and DocumentMerger._create_docx.  A file is the sequence  *)
(* of the components of its path under the directory.                      *)
(***************************************************************************)
ContentTypes == << "[Content_Types].xml" >>

\* the files a staged directory may hold; word/document.xml is always there,
\* written before the archive is packed
PackageFiles ==
  { ContentTypes, << "_rels", ".rels" >>, << "_rels_note.xml" >>,
    << "word", "document.xml" >>, << "word", "_rels", "document.xml.rels" >>,
    << "word", "media", "image1.png" >> }

\* the names of the directory itself and of its directory word
TopNames == {"[Content_Types].xml", "_rels", "_rels_note.xml", "word"}
WordNames == {"document.xml", "_rels", "media"}

\* how the top-level names of the model go on after "_rels"
RelsTails == {"", "_note.xml"}

\* arcname.startswith('_rels'), on the first component of the path
StartsWithRels(f) == \E tail \in RelsTails : f[1] = "_rels" \o tail

\* the files below the directory at prefix
Below(files, prefix) ==
  {f \in files : Len(f) > Len(prefix) /\ SubSeq(f, 1, Len(prefix)) = prefix}

\* os.listdir of the directory at prefix: top and word are the orders of the
\* two directories with more than one name
Listing(files, prefix, top, word) ==
  IF prefix = << >> THEN top
  ELSE IF prefix = << "word" >> THEN word
  ELSE CHOOSE o \in Orders({f[Len(prefix) + 1] : f \in Below(files, prefix)}) : TRUE

\* os.walk(dir), top down: the files of the directory in the order of its
\* listing, then its subdirectories in that order, each walked the same way
RECURSIVE Walk(_, _, _, _)
Walk(files, prefix, top, word) ==
  LET names == Listing(files, prefix, top, word)
      isFile(n) == Append(prefix, n) \in files
      isDir(n) == Below(files, Append(prefix, n)) # {}
      fileNames == SelectSeq(names, isFile)
      dirNames == SelectSeq(names, isDir)
  IN  [h \in 1..Len(fileNames) |-> Append(prefix, fileNames[h])]
        \o Flatten([h \in 1..Len(dirNames) |->
                      Walk(files, Append(prefix, dirNames[h]), top, word)])

\* create_docx(source_dir, output_path) of merge_docx.py: the names written to
\* the archive, in the order written
create_docx(files, top, word) ==
  LET content_types == IF ContentTypes \in files THEN << ContentTypes >> ELSE << >>
      rels == IF Below(files, << "_rels" >>) # {}
              THEN Walk(files, << "_rels" >>, top, word) ELSE << >>
      other(f) == ~(f = ContentTypes \/ StartsWithRels(f))
  IN  (content_types \o rels) \o SelectSeq(Walk(files, << >>, top, word), other)

\* DocumentMerger._create_docx(source_dir, output_path)
DM_create_docx(files, top, word) == Walk(files, << >>, top, word)

\* a staged directory that waits to be packed
Staged(dir, top, word) == [by |-> "staged", dir |-> dir, top |-> top, word |-> word, zip |-> << >>]

MD_CreateDocx ==
  /\ pack.by = "staged"
  /\ pack' = [pack EXCEPT !.by = "create_docx",
                          !.zip = create_docx(pack.dir, pack.top, pack.word)]
  /\ UNCHANGED << mergeVars, docVars >>

DM_CreateDocx ==
  /\ pack.by = "staged"
  /\ pack' = [pack EXCEPT !.by = "_create_docx",
                          !.zip = DM_create_docx(pack.dir, pack.top, pack.word)]
  /\ UNCHANGED << mergeVars, docVars >>

InitPack ==
  /\ MergeIdle
  /\ DocIdle
  /\ \E dir \in SUBSET PackageFiles, top \in Orders(TopNames), word \in Orders(WordNames) :
       /\ << "word", "document.xml" >> \in dir
       /\ pack = Staged(dir, top, word)

NextPack ==
  \/ MD_CreateDocx
  \/ DM_CreateDocx

SpecPack == InitPack /\ [][NextPack]_vars

\* the place of a file in the order of an archive: [Content_Types].xml, then
\* the files under _rels/, then every other file
PlaceOf(f) ==
  IF f = ContentTypes THEN 0 ELSE IF Len(f) > 1 /\ f[1] = "_rels" THEN 1 ELSE 2

\* C26: packing a staged directory writes every file of the directory into
\* the archive once, none twice and none left out whatever its name, with
\* [Content_Types].xml first, then the files under _rels/, then all others.
C26_EveryFileOnceInOrder ==
  pack.by \in {"create_docx", "_create_docx"} =>
    /\ \A f \in pack.dir : Cardinality({h \in 1..Len(pack.zip) : pack.zip[h] = f}) = 1
    /\ Len(pack.zip) = Cardinality(pack.dir)
    /\ \A a, b \in 1..Len(pack.zip) : a < b => PlaceOf(pack.zip[a]) <= PlaceOf(pack.zip[b])

(***************************************************************************)
(* Substitution in a paragraph of several runs.                            *)
(***************************************************************************)
\* the last call substituted a map none of whose values has a newline
SubstitutedInPlace ==
  /\ call.op \in {"replace_report_text", "replace_text_in_document"}
  /\ \A h \in 1..Len(call.replacements) : ~In(<< "\n" >>, call.replacements[h].value)

\* the paragraph of the body at h had several runs and a key of the map of the
\* last call, and was not one the colour mode rebuilds
SeveralRunsAt(h) ==
  /\ pre.body[h].kind = "p"
  /\ Len(pre.body[h].runs) > 1
  /\ ReplaceItems(ParaText(pre.body[h]), FALSE, call.replacements, 1).is_modified
  /\ call.op = "replace_report_text" =>
       ~DE_colour_case(ParaText(pre.body[h]), call.replacements, call.enable_risk_color)

\* C25: after a substitution whose values have no newline, a paragraph that
\* had several runs has as many runs as before, its first run holds the fully
\* substituted text with the formatting it had, and every later run is empty.
C25_FirstRunAbsorbsText ==
  SubstitutedInPlace =>
    /\ Len(doc.body) = Len(pre.body)
    /\ \A h \in 1..Len(pre.body) : SeveralRunsAt(h) =>
         LET before == pre.body[h].runs
             after == doc.body[h].runs
         IN  /\ Len(after) = Len(before)
             /\ after[1].text = ReplaceItems(ParaText(pre.body[h]), FALSE, call.replacements, 1).full_text
             /\ after[1].color = before[1].color /\ after[1].bold = before[1].bold
             /\ \A g \in 2..Len(after) : after[g].text = << >>

(***************************************************************************)
(* The width of an embedded image.                                         *)
(***************************************************************************)
\* the last call was _insert_image_run on a file that exists, that Image.open
\* decodes and that add_picture takes
Embedded ==
  /\ call.op = "_insert_image_run"
  /\ resolve_path(call.img_path).exists
  /\ Images[call.img_path].decode > 0
  /\ Images[call.img_path].insert = "ok"

\* the width of the picture the last call embedded, in EMU
EmbeddedWidth == doc.body[call.para].runs[Len(doc.body[call.para].runs)].pic.width

\* C27 as stated: an image that decodes with a natural width of w pixels,
\* embedded with a limit of m inches, has the width m inches when w > 96 * m
\* and the width w / 96 inches otherwise (in EMU: 914400 to the inch, so
\* w * 9525); hence its width is never above m inches and never above its
\* natural width.
C27_WidthIsLimitOrNatural ==
  Embedded =>
    LET w == Images[call.img_path].decode
        m == call.max_width
    IN  /\ EmbeddedWidth = (IF w * EmuPerPixel > m THEN m ELSE w * EmuPerPixel)
        /\ EmbeddedWidth <= m
        /\ EmbeddedWidth <= w * EmuPerPixel

\* C27: an image that decodes with a natural width of w pixels, embedded with
\* a limit of m inches, has the width m inches when w > 96 * m; otherwise its
\* width is w / 96 inches cut down to a whole number of EMU, which is that
\* width or one EMU less; its width is never above m inches and never above
\* its natural width.
C27_WidthWithinOneEmu ==
  Embedded =>
    LET w == Images[call.img_path].decode
        m == call.max_width
    IN  /\ w * EmuPerPixel > m => EmbeddedWidth = m
        /\ w * EmuPerPixel <= m => EmbeddedWidth \in {w * EmuPerPixel - 1, w * EmuPerPixel}
        /\ EmbeddedWidth <= m
        /\ EmbeddedWidth <= w * EmuPerPixel

\* an image of 401 pixels was embedded under a limit of six inches, one EMU
\* short of 401 / 96 inches
C27_Witness ==
  /\ Embedded
  /\ Images[call.img_path].decode = 401 /\ call.max_width = Inches6
  /\ EmbeddedWidth = 401 * EmuPerPixel - 1

(***************************************************************************)
(* The image calls of the handlers.                                        *)
(***************************************************************************)
\* the last call was process_single_image or process_image_list and returned
ProcessedImages ==
  call.op \in {"process_single_image", "process_image_list"} /\ ~call.raised

\* C30: after process_single_image(placeholder, image_data) or
\* process_image_list(placeholder, images) returns, the placeholder occurs in
\* no paragraph of the body and in no cell of a table, whatever the placeholder
\* is and whether the image data is absent, names a missing file or names
\* files that exist.
C30_PlaceholderGone ==
  ProcessedImages => ~OccursIn(call.placeholder, BodyParas(doc.body))

\* the paths of the pictures of the paragraphs, in the order of the paragraphs
PicturesOf(paras) ==
  LET pictured == SelectSeq(paras, HasPicture)
  IN  [h \in 1..Len(pictured) |->
         pictured[h].runs[CHOOSE r \in 1..Len(pictured[h].runs) : pictured[h].runs[r].pic # NoPic].pic.path]

\* the last call was process_image_list with images that all exist and can be
\* embedded, for a keyword the document held, and it returned
SeriesInserted ==
  /\ call.op = "process_image_list" /\ ~call.raised
  /\ call.images # << >>
  /\ \A h \in 1..Len(call.images) :
       /\ call.images[h].path # ""
       /\ Images[call.images[h].path].asGiven
       /\ Images[call.images[h].path].insert = "ok"
  /\ OccursIn(call.placeholder, BodyParas(pre.body))

\* C28: the text_with_image calls that process_image_list makes with one
\* keyword accumulate: after k calls with existing images the document holds k
\* more image paragraphs, next to each other and in the order of the calls, for
\* a keyword in a cell and in a paragraph of the body, with and without
\* descriptions; no image paragraph that was there before is removed.
C28_ImagesAccumulate ==
  SeriesInserted =>
    LET before == PicturesOf(BodyParas(pre.body))
        after == PicturesOf(BodyParas(doc.body))
        added == [h \in 1..Len(call.images) |-> resolve_path(call.images[h].path).path]
    IN  \E i \in 0..Len(before) :
          after = (SubSeq(before, 1, i) \o added) \o SubSeq(before, i + 1, Len(before))

(***************************************************************************)
(* The paragraphs a list of images leaves at a token.                      *)
(***************************************************************************)
\* what a paragraph is at a token: a caption with its text, or the paragraph
\* of an image with the path of the picture it holds, if it holds one
ShapeOf(p) ==
  IF p.pPr = "center"
  THEN [kind |-> "image",
        of |-> IF HasPicture(p) THEN PicturesOf(<< p >>) ELSE << >>]
  ELSE [kind |-> "caption", of |-> ParaText(p)]

\* what an item is to leave: a caption if it has a description, then the
\* paragraph of its image (for every item, or only for an item with a path)
ItemShapes(item, everyItem) ==
  (IF item.desc # << >> THEN << [kind |-> "caption", of |-> item.desc] >> ELSE << >>)
  \o (IF everyItem \/ item.path # ""
      THEN << [kind |-> "image",
               of |-> IF resolve_path(item.path).exists /\ Images[item.path].insert = "ok"
                      THEN << resolve_path(item.path).path >> ELSE << >>] >>
      ELSE << >>)

\* what the list of the last call is to leave
ExpectedShapes(everyItem) ==
  Flatten([h \in 1..Len(call.image_list) |-> ItemShapes(call.image_list[h], everyItem)])

\* the token paragraphs of the body before the call that stand before block h
TokenParasBefore(h) ==
  Cardinality({g \in 1..(h - 1) : TargetParagraph(pre, g, call.placeholder)})

\* the last call was replace_placeholder_with_images with a list that is not
\* empty, and it returned
ImagesReplaced ==
  call.op = "replace_placeholder_with_images" /\ call.image_list # << >> /\ ~call.raised

\* the paragraphs expected stand in the place of every paragraph of the body
\* that had the token and fill every cell that had it (a cell for which
\* nothing is expected keeps one empty paragraph); the other blocks and cells
\* are as they were
ShapesAtToken(expected) ==
  /\ Len(doc.body) = Len(pre.body) + TokenParasBefore(Len(pre.body) + 1) * (Len(expected) - 1)
  /\ \A h \in 1..Len(pre.body) :
       LET at == h + TokenParasBefore(h) * (Len(expected) - 1)
       IN  IF TargetParagraph(pre, h, call.placeholder)
           THEN \A k \in 1..Len(expected) :
                  /\ doc.body[at + k - 1].kind = "p"
                  /\ ShapeOf(doc.body[at + k - 1]) = expected[k]
           ELSE IF pre.body[h].kind = "tbl"
           THEN /\ doc.body[at].kind = "tbl"
                /\ Len(doc.body[at].cells) = Len(pre.body[h].cells)
                /\ \A c \in 1..Len(pre.body[h].cells) :
                     IF In(call.placeholder, CellText(pre.body[h].cells[c]))
                     THEN [k \in 1..Len(doc.body[at].cells[c].paras) |->
                             ShapeOf(doc.body[at].cells[c].paras[k])]
                            = (IF expected = << >>
                               THEN << [kind |-> "caption", of |-> << >>] >> ELSE expected)
                     ELSE doc.body[at].cells[c] = pre.body[h].cells[c]
           ELSE doc.body[at] = pre.body[h]

\* C24 as stated: replace_placeholder_with_images(token, items) with a list
\* that is not empty puts, in the place of the token, for every item in the
\* order of the list a caption paragraph if the item has a description and
\* then one image paragraph, where the token stood in a paragraph of the body
\* and where it stood in a cell of a table alike.
C24_CaptionAndImagePerItem == ImagesReplaced => ShapesAtToken(ExpectedShapes(TRUE))

\* C24: replace_placeholder_with_images(token, items) with a list that is not
\* empty puts, in the place of the token, for every item in the order of the
\* list a caption paragraph if the item has a description and then one image
\* paragraph if the item has a path, where the token stood in a paragraph of
\* the body and where it stood in a cell of a table alike.
C24_ImagePerItemWithPath == ImagesReplaced => ShapesAtToken(ExpectedShapes(FALSE))

\* a list of an item without a path that has a description and of an image
\* was put in the place of a token that stood in a paragraph of the body and
\* in a cell
C24_Witness ==
  /\ ImagesReplaced
  /\ Len(call.image_list) = 2
  /\ call.image_list[1].path = "" /\ call.image_list[1].desc # << >>
  /\ HasPicture(doc.body[Len(doc.body)])
  /\ \E h \in 1..Len(pre.body) : TargetParagraph(pre, h, call.placeholder)
  /\ OccursIn(call.placeholder, Flatten([h \in 1..Len(CellsOf(pre.body)) |-> CellsOf(pre.body)[h].paras]))
=============================================================================
